---- MODULE Spec2Model ----
(***************************************************************************)
(* State-machine model of the tax2go-search service: the HTTP edge        *)
(* (router, X-User-Id extractor, handler validation), the IndexManager    *)
(* (registry of per-tenant handles, write path, read paths) and the       *)
(* contract of the tantivy writer/reader the IndexManager drives.         *)
(*                                                                         *)
(* Strings are sequences of one-character strings, so that trim() and the *)
(* tokenizer are computed rather than assumed.  Option<T> is either the   *)
(* value or NoneVal.                                                      *)
(***************************************************************************)
EXTENDS Integers, Sequences, FiniteSets, TLC

\* ------------------------------------------------------------------ bounds
\* Number of requests/calls the environment issues in one behaviour.
MaxReqs == 3
\* Number of requests in one behaviour of the sequential specification.
MaxSeqReqs == 5
\* Number of requests in one behaviour of the edge specification.
MaxEdgeReqs == 3
\* Number of engine faults (add_document / commit / reload / open errors)
\* the environment injects in one behaviour.
MaxFaults == 1
\* Number of UUIDs Uuid::new_v4() can hand out in one behaviour.
MaxMint == 4
\* Width of usize in bits, scaled down from 64: wide enough for the limits
\* the code compares against (100, 1000, 1001).
UsizeBits == 11

\* ------------------------------------------------------------ small values
NoneVal == <<"None">>
NoTask == "none"
NoUser == "nobody"

Tasks == {"p1", "p2"}

\* Tenants are UUIDs; UuidStr(t) is Uuid::to_string.
Tenants == {"T1", "T2"}

SP == " "
IsWhite(c) == c = SP
IsAlnum(c) ==
    c \in {"r", "x", "d", "e", "u", "t", "a", "g", "s", "i", "o", "c",
           "1", "2", "3", "4", "5", "6", "7", "8", "9"}

\* ------------------------------------------------------------ str::trim
RECURSIVE TrimStart(_)
TrimStart(s) ==
    IF s = <<>> THEN <<>>
    ELSE IF IsWhite(Head(s)) THEN TrimStart(Tail(s)) ELSE s

RECURSIVE TrimEnd(_)
TrimEnd(s) ==
    IF s = <<>> THEN <<>>
    ELSE IF IsWhite(s[Len(s)]) THEN TrimEnd(SubSeq(s, 1, Len(s) - 1)) ELSE s

Trim(s) == TrimEnd(TrimStart(s))

\* A plausible slip: is_empty() without trim().
IsEmptyUntrimmed(s) == s = <<>>

\* The validation predicate of the handlers: `x.trim().is_empty()`.
TrimIsEmpty(s) == Trim(s) = <<>>

\* ---------------------------------------------------- Uuid::new_v4 / to_string
DigitStr == <<"1", "2", "3", "4", "5", "6", "7", "8", "9">>

\* The n-th UUID string handed out by Uuid::new_v4().to_string(): every call
\* yields a value no earlier call yielded.
MintedUuid(n) == <<"u", DigitStr[n]>>

\* X-User-Id header values: the UUID strings of the tenants parse, every
\* other string does not (Uuid::parse_str).
UuidStr(t) == IF t = "T1" THEN <<"u", "u", "1">> ELSE <<"u", "u", "2">>

ParseUuid(h) ==
    IF \E t \in Tenants : UuidStr(t) = h
    THEN CHOOSE t \in Tenants : UuidStr(t) = h
    ELSE NoUser

\* ------------------------------------------------------------- inputs
\* IndexDocumentInput { id, title, body, metadata { tags, source, created_at } }
MkInput(id, title, body, tags, source, created) ==
    [id |-> id, title |-> title, body |-> body,
     tags |-> tags, source |-> source, created_at |-> created]

V1Title == <<"r">>
V1Body == <<"x", SP, "r">>
V2Title == <<"x", SP>>
V2Body == <<"x">>

ClientIds == {<<"d">>}

InputV1(id) == MkInput(id, V1Title, V1Body, <<<<"r">>, <<"e">>, <<"r">>>>, <<"d">>, <<"1">>)
InputV2(id) == MkInput(id, V2Title, V2Body, <<>>, NoneVal, NoneVal)

ValidInputs ==
    {InputV1(id) : id \in ClientIds \cup {NoneVal}} \cup {InputV2(<<"d">>)}

InvalidInputs ==
    {MkInput(<<"d">>, <<>>, V1Body, <<>>, NoneVal, NoneVal),
     MkInput(<<"d">>, <<SP, SP>>, V1Body, <<>>, NoneVal, NoneVal),
     MkInput(<<"d">>, V1Title, <<SP>>, <<>>, NoneVal, NoneVal)}

NoInput == MkInput(NoneVal, <<>>, <<>>, <<>>, NoneVal, NoneVal)

\* ------------------------------------------------------------- schema.rs
\* DateTime<Utc>::to_rfc3339: the instant followed by the UTC offset, and
\* the instant a string so rendered denotes.
ToRfc3339(instant) == instant \o <<"+", "0">>
ParseRfc3339(s) == SubSeq(s, 1, Len(s) - 2)

\* Utc::now() at index time.
Now == <<"9">>
NowStr == ToRfc3339(Now)

NoDoc == [id |-> NoneVal]

\* A plausible slip: title and body stored under each other's field.
DocFromInputSwapped(input, fresh, owner) ==
    [id |-> IF input.id # NoneVal THEN input.id ELSE fresh,
     title |-> input.body,
     body |-> input.title,
     created_at |-> IF input.created_at # NoneVal
                    THEN ToRfc3339(input.created_at) ELSE NowStr,
     tags |-> input.tags,
     source |-> input.source,
     owner |-> owner,
     input |-> input]

\* doc_from_input: the stored document.  `fresh` is the value
\* Uuid::new_v4().to_string() returns if it is called; `owner` (the tenant
\* whose request built the document) and `input` (the input it was built
\* from) are ghost fields, never projected.
DocFromInput(input, fresh, owner) ==
    [id |-> IF input.id # NoneVal THEN input.id ELSE fresh,
     title |-> input.title,
     body |-> input.body,
     created_at |-> IF input.created_at # NoneVal
                    THEN ToRfc3339(input.created_at) ELSE NowStr,
     tags |-> input.tags,
     source |-> input.source,
     owner |-> owner,
     input |-> input]

\* --------------------------------------------------- tantivy writer contract
OpDelete(id) == [kind |-> "delete", id |-> id, doc |-> NoDoc]
OpAdd(doc) == [kind |-> "add", id |-> doc.id, doc |-> doc]

\* Documents of `docs` whose id term is not `id`.
RECURSIVE WithoutId(_, _)
WithoutId(docs, id) ==
    IF docs = <<>> THEN <<>>
    ELSE IF Head(docs).id = id
         THEN WithoutId(Tail(docs), id)
         ELSE <<Head(docs)>> \o WithoutId(Tail(docs), id)

\* A delete-by-term removes every document added before it (committed or
\* queued); an add appends.  Operations apply in the order they were queued.
RECURSIVE ApplyOps(_, _)
ApplyOps(docs, ops) ==
    IF ops = <<>> THEN docs
    ELSE LET op == Head(ops)
         IN  IF op.kind = "delete"
             THEN ApplyOps(WithoutId(docs, op.id), Tail(ops))
             ELSE ApplyOps(Append(docs, op.doc), Tail(ops))

\* --------------------------------------------------- tokenizer, query parser
\* The "default" tokenizer: maximal runs of alphanumeric characters.
RECURSIVE TokAcc(_, _, _)
TokAcc(s, cur, acc) ==
    IF s = <<>> THEN (IF cur = <<>> THEN acc ELSE Append(acc, cur))
    ELSE IF IsAlnum(Head(s))
         THEN TokAcc(Tail(s), Append(cur, Head(s)), acc)
         ELSE TokAcc(Tail(s), <<>>, IF cur = <<>> THEN acc ELSE Append(acc, cur))

Tokens(s) == TokAcc(s, <<>>, <<>>)

HasChar(s, c) == \E i \in 1..Len(s) : s[i] = c

\* The words of a query: its maximal runs of non-blank characters.
RECURSIVE WordAcc(_, _, _)
WordAcc(s, cur, acc) ==
    IF s = <<>> THEN (IF cur = <<>> THEN acc ELSE Append(acc, cur))
    ELSE IF IsWhite(Head(s))
         THEN WordAcc(Tail(s), <<>>, IF cur = <<>> THEN acc ELSE Append(acc, cur))
         ELSE WordAcc(Tail(s), Append(cur, Head(s)), acc)

Words(s) == WordAcc(s, <<>>, <<>>)

\* The indexed fields a query may name, by the spelling of FieldNames, and
\* whether the field is tokenized (TEXT) or indexed whole (STRING).
NoField == "none"
FieldNamed(name) ==
    IF name = <<"t", "a", "g", "s">> THEN "tags"
    ELSE IF name = <<"i", "d">> THEN "id"
    ELSE IF name = <<"s", "o", "u", "r", "c", "e">> THEN "source"
    ELSE NoField

\* A term of a named field is the field's name followed by the term's
\* characters; a term of the default fields is the bare token.
TermIn(field, tok) == <<field>> \o tok

FirstColon(w) == CHOOSE k \in 1..Len(w) : w[k] = ":" /\ \A j \in 1..(k - 1) : w[j] # ":"

\* The terms one word of the query stands for: `field:text` is text looked
\* up in that field, any other word its tokens looked up in title and body.
WordField(w) == IF HasChar(w, ":") THEN FieldNamed(SubSeq(w, 1, FirstColon(w) - 1)) ELSE "default"
WordTerms(w) ==
    IF ~HasChar(w, ":") THEN {Tokens(w)[i] : i \in 1..Len(Tokens(w))}
    ELSE LET text == SubSeq(w, FirstColon(w) + 1, Len(w))
         IN  IF WordField(w) = "tags"
             THEN {TermIn("tags", Tokens(text)[i]) : i \in 1..Len(Tokens(text))}
             ELSE {TermIn(WordField(w), text)}

\* QueryParser::for_index(index, {title, body}).parse_query: an unbalanced
\* parenthesis is a syntax error and a field the schema does not have is an
\* error; otherwise the query is the OR of the terms of its words.
ParseQuery(q) ==
    IF HasChar(q, "(") \/ \E i \in 1..Len(Words(q)) : WordField(Words(q)[i]) = NoField
    THEN [ok |-> FALSE, terms |-> {}]
    ELSE [ok |-> TRUE, terms |-> UNION {WordTerms(Words(q)[i]) : i \in 1..Len(Words(q))}]

\* Number of elements of `toks` that are terms of the query.
RECURSIVE CountIn(_, _)
CountIn(toks, terms) ==
    IF toks = <<>> THEN 0
    ELSE (IF Head(toks) \in terms THEN 1 ELSE 0) + CountIn(Tail(toks), terms)

\* The terms a document is indexed under outside title and body: the tokens
\* of each tag, the id whole, the source whole when there is one.
RECURSIVE TagTerms(_)
TagTerms(tags) ==
    IF tags = <<>> THEN <<>>
    ELSE [i \in 1..Len(Tokens(Head(tags))) |-> TermIn("tags", Tokens(Head(tags))[i])]
         \o TagTerms(Tail(tags))

NamedTerms(doc) ==
    TagTerms(doc.tags) \o <<TermIn("id", doc.id)>>
    \o (IF doc.source = NoneVal THEN <<>> ELSE <<TermIn("source", doc.source)>>)

\* A plausible change: the tags are searched as a third default field.
ScoreWithTags(doc, terms) ==
    CountIn(Tokens(doc.title), terms) + CountIn(Tokens(doc.body), terms)
    + CountIn(NamedTerms(doc), terms)
    + Len(SelectSeq(TagTerms(doc.tags), LAMBDA t : Tail(t) \in terms))

\* Number of occurrences of the query's terms in the document: those of the
\* default fields in title and body, those of a named field in that field.
Score(doc, terms) ==
    CountIn(Tokens(doc.title), terms) + CountIn(Tokens(doc.body), terms)
    + CountIn(NamedTerms(doc), terms)

\* TopDocs order of the positions of `docs` in `cand`: score descending, ties
\* by position ascending.
RECURSIVE Ranked(_, _, _)
Ranked(docs, terms, cand) ==
    IF cand = {} THEN <<>>
    ELSE LET best == CHOOSE i \in cand :
                        \A j \in cand :
                            \/ Score(docs[i], terms) > Score(docs[j], terms)
                            \/ /\ Score(docs[i], terms) = Score(docs[j], terms)
                               /\ i <= j
         IN  <<best>> \o Ranked(docs, terms, cand \ {best})

Min(a, b) == IF a < b THEN a ELSE b

\* top_docs.into_iter().skip(offset).take(limit)
SkipTake(hits, offset, limit) ==
    SubSeq(hits, offset + 1, Min(Len(hits), offset + limit))

\* TopDocs::with_limit(n) keeps the first n hits.
TopN(hits, n) == SubSeq(hits, 1, Min(Len(hits), n))

\* Projection of a stored document by search (SearchResult).
ProjectSearch(doc) ==
    [id |-> doc.id, title |-> doc.title, body |-> doc.body,
     created_at |-> doc.created_at]

\* Projection of a stored document by browse (DocumentDetail).
ProjectBrowse(doc) ==
    [id |-> doc.id, title |-> doc.title, body |-> doc.body,
     created_at |-> doc.created_at, tags |-> doc.tags]

\* usize::MAX
UsizeMax == 2^UsizeBits - 1

\* The two ways the crate is built: with overflow checks (dev profile) and
\* without (release profile).
Builds == {"debug", "release"}

NoFetch == -1

\* `limit + offset` in usize: the sum; when it overflows, a panic with
\* overflow checks (NoFetch) and the wrapped sum without.
FetchSize(limit, offset, build) ==
    IF limit + offset <= UsizeMax THEN limit + offset
    ELSE IF build = "debug" THEN NoFetch
    ELSE (limit + offset) % (UsizeMax + 1)

\* The hits of a parsed query on a searcher holding `docs`: the top n by
\* score, windowed.
SearchHits(docs, terms, limit, offset, n) ==
    LET matching == {i \in 1..Len(docs) : Score(docs[i], terms) > 0}
        top == TopN(Ranked(docs, terms, matching), n)
    IN  SkipTake(top, offset, Min(limit, 100))

\* A plausible slip: a collector that keeps the n documents of highest doc
\* id, so that the list a larger n yields does not start with the list a
\* smaller n yields.
BrowseHitsLastN(docs, limit, offset, n) ==
    LET all == [i \in 1..Len(docs) |-> i]
        top == SubSeq(all, Len(all) - Min(Len(all), n) + 1, Len(all))
    IN  SkipTake(top, offset, Min(limit, 1000))

\* The hits of AllQuery on a searcher holding `docs`: the first n in doc
\* order, windowed.
BrowseHits(docs, limit, offset, n) ==
    LET top == TopN([i \in 1..Len(docs) |-> i], n)
    IN  SkipTake(top, offset, Min(limit, 1000))

\* ------------------------------------------------------------------ state
\* A plausible slip: the user id left out of the path.
PathOfShared(t) == <<"base", "index">>

\* base_dir/{user_id}/index
PathOf(t) == <<"base", UuidStr(t), "index">>

Paths == {PathOf(t) : t \in Tenants}

VARIABLES
    dir,        \* path -> "absent" | "empty" | "index": the on-disk directory
    committed,  \* path -> sequence of stored documents of the last commit
    indexes,    \* tenant -> TRUE when the registry map holds a handle for it
    lock,       \* tenant -> task holding the handle's writer mutex, or NoTask
    pending,    \* tenant -> operations queued in the handle's writer, uncommitted
    reader,     \* tenant -> documents of the segments the handle's reader has loaded
    pc,         \* task -> position of the request it serves
    req,        \* task -> the request it serves (or served last)
    loc,        \* task -> locals of index_document: doc and doc_id
    resp,       \* task -> the response of its last finished request
    reqs,       \* number of requests issued so far
    faults,     \* number of engine faults injected so far
    nextUuid,   \* number of UUIDs minted so far
    acked,      \* ghost: tenant -> documents live according to the successful writes
    base,       \* ghost: task -> acked of its tenant when its read began
    dirty,      \* ghost: task -> ids targeted by writes overlapping its read
    claimed,    \* ghost: tenant -> ids its clients were told are stored
    built       \* ghost: tenant -> number of IndexHandles this process made and cached

diskVars == <<dir, committed>>
handleVars == <<indexes, lock, pending, reader>>
taskVars == <<pc, req, loc, resp>>
envVars == <<reqs, faults, nextUuid>>
ghostVars == <<acked, base, dirty, claimed, built>>
vars == <<diskVars, handleVars, taskVars, envVars, ghostVars>>

\* ---------------------------------------------------------------- requests
\* SearchFilters::default()
NoFilters == [tags |-> <<>>, source |-> NoneVal]

NoReq ==
    [via |-> "none", op |-> "none", header |-> NoneVal, user |-> NoUser, json |-> "ok",
     filters |-> NoFilters,
     input |-> NoInput, id |-> NoneVal, query |-> NoneVal, limit |-> 0, offset |-> 0]

\* `handle` tells which of the tenant's IndexHandles the task got from
\* get_or_create_index: the n-th made, 0 before it has one.
NoLoc == [doc |-> NoDoc, docId |-> NoneVal, handle |-> 0]

NoResp ==
    [status |-> 0, kind |-> "none", id |-> NoneVal, results |-> <<>>, total |-> 0,
     count |-> 0, seen |-> {}, body |-> "none", details |-> NoneVal]

\* A response with a status code; `kind` is the `error` field of its body when
\* it has one, and otherwise names the outcome.
Status(code, kind) == [NoResp EXCEPT !.status = code, !.kind = kind]

\* ----------------------------------------------------------- http/error.rs
\* err.to_string() of the underlying cause.
Cause == <<"e">>

AppErrors == {"Internal", "BadRequest", "NotFound", "Validation", "Search", "Index"}

\* AppError::into_response: status, `error`, and `details`, which serde skips
\* when it is None; the body is the JSON of ErrorResponse.
IntoResponse(err) ==
    LET x == CASE err = "Internal" -> Status(500, "internal_error")
               [] err = "BadRequest" -> Status(400, "bad_request")
               [] err = "NotFound" -> Status(404, "not_found")
               [] err = "Validation" -> Status(422, "validation_error")
               [] err = "Search" -> Status(400, "search_error")
               [] err = "Index" -> Status(500, "index_error")
    IN  [x EXCEPT !.body = "error",
                  !.details = IF err = "Internal" THEN Cause ELSE NoneVal]

\* AuthError::into_response: 401 with the JSON of { error, message }.
AuthErrorResponse(kind) == [Status(401, kind) EXCEPT !.body = "error"]

\* The rejection of axum's Json extractor, which the handlers take as it is:
\* 400 for a syntax error and 422 for a body of the wrong shape, both with a
\* plain-text body.
JsonRejection(r) ==
    IF r.op = "stats" \/ r.json = "ok" THEN NoResp
    ELSE [Status(IF r.json = "syntax" THEN 400 ELSE 422, "none") EXCEPT !.body = "text"]

ReadOps == {"search", "browse", "stats"}
WriteOps == {"index", "delete"}

\* Requests the environment sends.
IndexReq(input) == [NoReq EXCEPT !.op = "index", !.input = input]
DeleteReq(id) == [NoReq EXCEPT !.op = "delete", !.id = id]
SearchReq(q, limit, offset) ==
    [NoReq EXCEPT !.op = "search", !.query = q, !.limit = limit, !.offset = offset]
BrowseReq(limit, offset) == [NoReq EXCEPT !.op = "browse", !.limit = limit, !.offset = offset]
StatsReq == [NoReq EXCEPT !.op = "stats"]

\* Payloads that pass the handlers' validation.
WritePayloads ==
    {IndexReq(i) : i \in ValidInputs} \cup {DeleteReq(<<"d">>)}

SearchPayloads ==
    {SearchReq(<<"r">>, 10, 0), SearchReq(<<"x", SP, "r">>, 1, 1), SearchReq(<<"(">>, 10, 0)}

BrowsePayloads == {BrowseReq(50, 0), BrowseReq(1, 1)}

\* A search with filters.tags and filters.source set.
FilteredPayloads ==
    {[SearchReq(<<"x", SP, "r">>, 10, 0) EXCEPT
         !.filters = [tags |-> <<<<"e">>>>, source |-> <<"d">>]]}

\* Bodies that are no JSON of the expected type: cut short, or lacking a
\* required field.
BrokenPayloads ==
    {[DeleteReq(<<"d">>) EXCEPT !.json = "syntax"], [DeleteReq(<<"d">>) EXCEPT !.json = "data"]}

\* A valid search for a window far behind the last hit.
DeepPayloads == {SearchReq(<<"r">>, 1, UsizeMax)}

\* Payloads the handlers' validation is there to reject.
BadPayloads ==
    {IndexReq(i) : i \in InvalidInputs}
    \cup {DeleteReq(<<>>), DeleteReq(<<SP>>)}
    \cup {SearchReq(<<>>, 10, 0), SearchReq(<<SP>>, 10, 0),
          SearchReq(<<"r">>, 0, 0), SearchReq(<<"r">>, 101, 0)}
    \cup {BrowseReq(0, 0), BrowseReq(1001, 0)}

\* X-User-Id header values: absent, not visible ASCII, not a UUID, a UUID.
BadBytes == <<"#">>
Headers == {NoneVal, BadBytes, <<"x">>} \cup {UuidStr(t) : t \in Tenants}

\* ------------------------------------------------------------ http/mod.rs
\* build_router: the endpoints nested under /v1.
RouteTable == {"index", "delete", "search", "stats"}

\* ------------------------------------------------------------ http/auth.rs
\* CurrentUser::from_request_parts: the rejection, or NoResp when the header
\* holds a UUID.
AuthRejection(header) ==
    IF header = NoneVal THEN AuthErrorResponse("missing_auth")
    ELSE IF header = BadBytes THEN AuthErrorResponse("invalid_auth")
    ELSE IF ParseUuid(header) = NoUser THEN AuthErrorResponse("invalid_auth")
    ELSE NoResp

\* ---------------------------------------------------------- http/routes.rs
\* A plausible change: delete_document hands every id to the IndexManager.
ValidationErrorNoDelete(r) ==
    CASE r.op = "index" ->
            IF TrimIsEmpty(r.input.title) \/ TrimIsEmpty(r.input.body)
            THEN IntoResponse("Validation") ELSE NoResp
      [] r.op = "search" ->
            IF TrimIsEmpty(r.query) \/ r.limit = 0 \/ r.limit > 100
            THEN IntoResponse("Validation") ELSE NoResp
      [] r.op = "browse" ->
            IF r.limit = 0 \/ r.limit > 1000
            THEN IntoResponse("Validation") ELSE NoResp
      [] OTHER -> NoResp

\* The handlers' validation: the error, or NoResp when the payload passes.
ValidationError(r) ==
    CASE r.op = "index" ->
            IF TrimIsEmpty(r.input.title) \/ TrimIsEmpty(r.input.body)
            THEN IntoResponse("Validation") ELSE NoResp
      [] r.op = "delete" ->
            IF TrimIsEmpty(r.id) THEN IntoResponse("Validation") ELSE NoResp
      [] r.op = "search" ->
            IF TrimIsEmpty(r.query) \/ r.limit = 0 \/ r.limit > 100
            THEN IntoResponse("Validation") ELSE NoResp
      [] r.op = "browse" ->
            IF r.limit = 0 \/ r.limit > 1000
            THEN IntoResponse("Validation") ELSE NoResp
      [] OTHER -> NoResp

\* ------------------------------------------------------------------- Init
Init ==
    /\ dir = [x \in Paths |-> "absent"]
    /\ committed = [x \in Paths |-> <<>>]
    /\ indexes = [t \in Tenants |-> FALSE]
    /\ lock = [t \in Tenants |-> NoTask]
    /\ pending = [t \in Tenants |-> <<>>]
    /\ reader = [t \in Tenants |-> <<>>]
    /\ pc = [p \in Tasks |-> "idle"]
    /\ req = [p \in Tasks |-> NoReq]
    /\ loc = [p \in Tasks |-> NoLoc]
    /\ resp = [p \in Tasks |-> NoResp]
    /\ reqs = 0
    /\ faults = 0
    /\ nextUuid = 0
    /\ acked = [t \in Tenants |-> {}]
    /\ base = [p \in Tasks |-> {}]
    /\ dirty = [p \in Tasks |-> {}]
    /\ claimed = [t \in Tenants |-> {}]
    /\ built = [t \in Tenants |-> 0]

\* ------------------------------------------------------ ghost bookkeeping
InFlight(p) == pc[p] \notin {"idle", "done"}

\* The id a write request targets.
Target(r) == IF r.op = "index" THEN r.input.id ELSE r.id

\* Ghost update when task p starts serving r in the core: a read records what
\* the successful writes so far promise it; a write marks the overlapping reads.
GhostEnter(p, r) ==
    /\ base' = [base EXCEPT ![p] = IF r.op \in ReadOps THEN acked[r.user] ELSE {}]
    /\ dirty' =
         [q \in Tasks |->
            IF q = p
            THEN IF r.op \in ReadOps
                 THEN {Target(req[o]) : o \in {o \in Tasks \ {p} :
                          InFlight(o) /\ req[o].op \in WriteOps /\ req[o].user = r.user}}
                 ELSE {}
            ELSE IF /\ r.op \in WriteOps /\ InFlight(q)
                    /\ req[q].op \in ReadOps /\ req[q].user = r.user
                 THEN dirty[q] \cup {Target(r)}
                 ELSE dirty[q]]
    /\ UNCHANGED <<acked, claimed, built>>

\* A request ends with response x.
Finish(p, x) ==
    /\ pc' = [pc EXCEPT ![p] = "done"]
    /\ resp' = [resp EXCEPT ![p] = x]

\* ---------------------------------------------------- the HTTP edge
WithHeader(r, header) ==
    [r EXCEPT !.via = "http", !.header = header, !.user = ParseUuid(header)]

\* HTTP requests of tenant T1 that pass router, extractor and validation.
GoodHttp ==
    {WithHeader(r, UuidStr("T1")) : r \in WritePayloads \cup SearchPayloads \cup {StatsReq}}

\* HTTP requests of tenant T2: the same document id and content as T1 sends.
OtherHttp ==
    {WithHeader(r, UuidStr("T2")) : r \in {IndexReq(InputV1(<<"d">>)), StatsReq}}

\* HTTP requests the edge answers by itself.
RejectedHttp ==
    {WithHeader(r, h) :
        r \in {IndexReq(InputV1(<<"d">>)), DeleteReq(<<"d">>), SearchReq(<<"r">>, 10, 0),
               StatsReq, BrowseReq(50, 0)},
        h \in {NoneVal, BadBytes, <<"x">>}}
    \cup {WithHeader(r, UuidStr("T1")) : r \in BadPayloads \cup BrowsePayloads}
    \cup {WithHeader(r, UuidStr("T1")) : r \in BrokenPayloads}

\* Direct calls of the pub methods of IndexManager (as its unit tests make).
AsCore(r, t) == [r EXCEPT !.via = "core", !.user = t]

CoreCalls == {AsCore(r, "T1") : r \in BrowsePayloads}

OtherCalls == {AsCore(BrowseReq(50, 0), "T2")}

\* Direct calls of IndexManager::search with arguments the HTTP edge would
\* have rejected: an empty query, a blank query, limit 0, limit 101.
UncheckedCalls ==
    {AsCore(r, "T1") : r \in {SearchReq(<<>>, 10, 0), SearchReq(<<SP>>, 10, 0),
                              SearchReq(<<"r">>, 0, 0), SearchReq(<<"r">>, 101, 0)}}

\* What concurrent clients send in Spec.
ConcReqs ==
    {WithHeader(r, UuidStr("T1")) :
        r \in WritePayloads \cup {SearchReq(<<"r">>, 10, 0), StatsReq}}
    \cup OtherHttp \cup OtherCalls \cup {AsCore(BrowseReq(50, 0), "T1")}

\* A client deleting by the id the response of its id-less upsert carried
\* (the first such upsert of a behaviour is answered MintedUuid(2)).
FollowUps == {WithHeader(DeleteReq(MintedUuid(2)), UuidStr("T1"))}

\* What the one client of SpecSeq sends.
SeqReqs == GoodHttp \cup CoreCalls \cup FollowUps

\* What the one client of SpecEdge sends; the last is a direct call of
\* browse_documents for a window far behind the last document.
EdgeReqs ==
    GoodHttp \cup OtherHttp \cup RejectedHttp
    \cup {WithHeader(r, UuidStr("T1")) : r \in DeepPayloads}
    \cup UncheckedCalls \cup {AsCore(BrowseReq(1, UsizeMax), "T1")}

\* The router, then the extractors (CurrentUser, Json), then the handler's validation:
\* the response, or NoResp when the request goes on into the IndexManager.
EdgeResponse(r) ==
    IF r.op \notin RouteTable THEN Status(404, "no_route")
    ELSE IF AuthRejection(r.header) # NoResp THEN AuthRejection(r.header)
    ELSE IF JsonRejection(r) # NoResp THEN JsonRejection(r)
    ELSE ValidationError(r)

\* Task p starts serving request r.
Arrive(p, r) ==
    /\ pc[p] \in {"idle", "done"}
    /\ reqs' = reqs + 1
    /\ req' = [req EXCEPT ![p] = r]
    /\ loc' = [loc EXCEPT ![p] = NoLoc]
    /\ IF r.via = "http" /\ EdgeResponse(r) # NoResp
       THEN /\ Finish(p, EdgeResponse(r))
            /\ UNCHANGED ghostVars
       ELSE /\ pc' = [pc EXCEPT ![p] = "goc"]
            /\ resp' = [resp EXCEPT ![p] = NoResp]
            /\ GhostEnter(p, r)
    /\ UNCHANGED <<diskVars, handleVars, faults, nextUuid>>

\* One request of one of the concurrent clients.
Request(p) ==
    /\ reqs < MaxReqs
    /\ \E r \in ConcReqs : Arrive(p, r)

\* One request of the sequential client.
SeqRequest(p) ==
    /\ reqs < MaxSeqReqs
    /\ \E r \in SeqReqs : Arrive(p, r)

\* One request of any kind, well-formed or not.
EdgeRequest(p) ==
    /\ reqs < MaxEdgeReqs
    /\ \E r \in EdgeReqs : Arrive(p, r)

\* ------------------------------------------------- responses of the handlers
\* map_err of each handler, then AppError::into_response; a direct core call
\* just gets the Err.
ErrorResponse(r) ==
    IF r.via = "core" THEN Status(0, "error")
    ELSE CASE r.op \in {"index", "delete"} -> IntoResponse("Index")
           [] r.op = "search" -> IntoResponse("Search")
           [] OTHER -> IntoResponse("Internal")

OkStatus(r) ==
    IF r.via = "core" THEN Status(0, "ok")
    ELSE [Status(200, "ok") EXCEPT !.body = "data"]

\* ------------------------------------------------- IndexManager: the registry
\* A plausible slip: the read methods take the writer mutex too, as the
\* delete does.
AfterGocLocking(op) ==
    CASE op = "index" -> "prepare"
      [] OTHER -> "lock"

\* The statement each method goes on with after get_or_create_index.
AfterGoc(op) ==
    CASE op = "index" -> "prepare"
      [] op = "delete" -> "lock"
      [] OTHER -> "reload"

\* get_or_create_index, fast path: lookup under the read guard.
GetOrCreateFast(p) ==
    /\ pc[p] = "goc"
    /\ pc' = [pc EXCEPT ![p] = IF indexes[req[p].user] THEN AfterGoc(req[p].op) ELSE "slow"]
    /\ loc' = [loc EXCEPT ![p].handle = IF indexes[req[p].user] THEN built[req[p].user] ELSE 0]
    /\ UNCHANGED <<diskVars, handleVars, req, resp, envVars, ghostVars>>

\* IndexHandle::new on a path: open when the path exists, else create.
\* Result: the directory's state afterwards and whether a handle came out.
HandleNew(state) ==
    IF state = "absent" THEN [ok |-> TRUE, dir |-> "index"]
    ELSE IF state = "index" THEN [ok |-> TRUE, dir |-> "index"]
    ELSE [ok |-> FALSE, dir |-> state]

\* What a failing IndexHandle::new can leave on disk: create_dir_all failed
\* (nothing), create_in_dir failed (an empty directory), writer or reader
\* creation failed (the index is there).
HandleNewFaults(state) ==
    IF state = "absent" THEN {"absent", "empty", "index"} ELSE {state}

\* A plausible slip: no second lookup under the write guard.
RecheckSkipped(t) == FALSE

\* The double-check under the write guard: `indexes.get(&user_id)` is Some.
RecheckHit(t) == indexes[t]

\* get_or_create_index, slow path: under the write guard, double-check, then
\* create the handle and insert it.
GetOrCreateSlow(p) ==
    LET t == req[p].user
        x == PathOf(t)
    IN  /\ pc[p] = "slow"
        /\ IF RecheckHit(t)
           THEN /\ pc' = [pc EXCEPT ![p] = AfterGoc(req[p].op)]
                /\ loc' = [loc EXCEPT ![p].handle = built[t]]
                /\ UNCHANGED <<diskVars, handleVars, resp, faults, built>>
           ELSE \/ /\ HandleNew(dir[x]).ok
                   /\ dir' = [dir EXCEPT ![x] = HandleNew(dir[x]).dir]
                   /\ indexes' = [indexes EXCEPT ![t] = TRUE]
                   /\ built' = [built EXCEPT ![t] = @ + 1]
                   /\ loc' = [loc EXCEPT ![p].handle = built[t] + 1]
                   /\ reader' = [reader EXCEPT ![t] = committed[x]]
                   /\ pc' = [pc EXCEPT ![p] = AfterGoc(req[p].op)]
                   /\ UNCHANGED <<committed, lock, pending, resp, faults>>
                \/ /\ ~HandleNew(dir[x]).ok
                   /\ Finish(p, ErrorResponse(req[p]))
                   /\ UNCHANGED <<diskVars, handleVars, faults, loc, built>>
                \/ /\ HandleNew(dir[x]).ok
                   /\ faults < MaxFaults
                   /\ faults' = faults + 1
                   /\ \E d \in HandleNewFaults(dir[x]) : dir' = [dir EXCEPT ![x] = d]
                   /\ Finish(p, ErrorResponse(req[p]))
                   /\ UNCHANGED <<committed, handleVars, loc, built>>
        /\ UNCHANGED <<req, reqs, nextUuid, acked, base, dirty, claimed>>

\* ------------------------------------------------- IndexManager: write path
\* index_document up to the lock: doc_from_input, then doc_id.  Each
\* `unwrap_or_else(|| Uuid::new_v4().to_string())` mints its own UUID.
DocIdOf(input, fresh) == IF input.id # NoneVal THEN input.id ELSE fresh

IndexPrepare(p) ==
    LET r == req[p]
        mints == IF r.input.id = NoneVal THEN 2 ELSE 0
    IN  /\ pc[p] = "prepare"
        /\ nextUuid + mints <= MaxMint
        /\ nextUuid' = nextUuid + mints
        /\ loc' = [loc EXCEPT
                     ![p].doc = DocFromInput(r.input, MintedUuid(nextUuid + 1), r.user),
                     ![p].docId = DocIdOf(r.input, MintedUuid(nextUuid + 2))]
        /\ pc' = [pc EXCEPT ![p] = "lock"]
        /\ UNCHANGED <<diskVars, handleVars, req, resp, reqs, faults, ghostVars>>

\* A plausible slip: one mutex for the writers of all tenants.
WriterLockShared(p) ==
    LET t == req[p].user
    IN  /\ pc[p] = "lock"
        /\ \A u \in Tenants : lock[u] = NoTask
        /\ lock' = [lock EXCEPT ![t] = p]
        /\ pc' = [pc EXCEPT ![p] = "delterm"]
        /\ UNCHANGED <<diskVars, indexes, pending, reader, req, loc, resp, envVars, ghostVars>>

\* A plausible slip: the writer taken without waiting for the mutex.
WriterLockNoWait(p) ==
    LET t == req[p].user
    IN  /\ pc[p] = "lock"
        /\ lock' = [lock EXCEPT ![t] = p]
        /\ pc' = [pc EXCEPT ![p] = "delterm"]
        /\ UNCHANGED <<diskVars, indexes, pending, reader, req, loc, resp, envVars, ghostVars>>

\* handle.writer.lock().await
WriterLock(p) ==
    LET t == req[p].user
    IN  /\ pc[p] = "lock"
        /\ lock[t] = NoTask
        /\ lock' = [lock EXCEPT ![t] = p]
        /\ pc' = [pc EXCEPT ![p] = "delterm"]
        /\ UNCHANGED <<diskVars, indexes, pending, reader, req, loc, resp, envVars, ghostVars>>

\* A plausible slip: the term taken from the delete payload's field, which an
\* index request leaves unset.
TermOfPayload(p) == req[p].id

\* The id the delete-by-term is issued for.
TermOf(p) == IF req[p].op = "index" THEN loc[p].docId ELSE req[p].id

\* writer.delete_term(term)
DeleteTerm(p) ==
    LET t == req[p].user
    IN  /\ pc[p] = "delterm"
        /\ pending' = [pending EXCEPT ![t] = Append(@, OpDelete(TermOf(p)))]
        /\ pc' = [pc EXCEPT ![p] = IF req[p].op = "index" THEN "add" ELSE "commit"]
        /\ UNCHANGED <<diskVars, indexes, lock, reader, req, loc, resp, envVars, ghostVars>>

\* A plausible slip: the guard kept alive past the return (mem::forget, or a
\* guard stored in the handle).
GuardKept(l, t) == l

\* The MutexGuard `writer` goes out of scope when the function returns, by
\* `?` or at the end: the tenant's mutex is unlocked.
GuardDropped(l, t) == [l EXCEPT ![t] = NoTask]

\* What the writer's queue holds after a failed operation returns: the code
\* returns through `?` and calls no rollback.
QueueAfterError(q) == q

\* writer.add_document(doc)?
AddDocument(p) ==
    LET t == req[p].user
    IN  /\ pc[p] = "add"
        /\ \/ /\ pending' = [pending EXCEPT ![t] = Append(@, OpAdd(loc[p].doc))]
              /\ pc' = [pc EXCEPT ![p] = "commit"]
              /\ UNCHANGED <<lock, resp, faults>>
           \/ /\ faults < MaxFaults
              /\ faults' = faults + 1
              /\ pending' = [pending EXCEPT ![t] = QueueAfterError(@)]
              /\ lock' = GuardDropped(lock, t)
              /\ Finish(p, ErrorResponse(req[p]))
        /\ UNCHANGED <<diskVars, indexes, reader, req, loc, reqs, nextUuid, ghostVars>>

\* Ghost: what the successful writes promise, after p's write.  Per id: the
\* document stored last and the number of upserts of the id since it last was
\* absent (gen >= 1), or that a delete of the id succeeded last (gen = 0);
\* dels is the number of deletes of the id that succeeded so far.
AckedAfter(p, entries) ==
    IF req[p].op = "index"
    THEN LET d == loc[p].doc
             before == {e \in entries : e.id = d.id}
             gen == IF before = {} THEN 1 ELSE (CHOOSE e \in before : TRUE).gen + 1
             dels == IF before = {} THEN 0 ELSE (CHOOSE e \in before : TRUE).dels
         IN  (entries \ before) \cup {[id |-> d.id, doc |-> d, gen |-> gen, dels |-> dels]}
    ELSE LET before == {e \in entries : e.id = req[p].id}
             dels == IF before = {} THEN 1 ELSE (CHOOSE e \in before : TRUE).dels + 1
         IN  (entries \ before)
                \cup {[id |-> req[p].id, doc |-> NoDoc, gen |-> 0, dels |-> dels]}

\* The response of a successful write: { id, status: "success", message }.
WriteResponse(p) == [OkStatus(req[p]) EXCEPT !.id = TermOf(p)]

\* Ghost: the ids the clients of a tenant hold as stored, after p's write: the
\* id of an upsert's response joins, the id of a delete leaves.
ClaimedAfter(p, ids) ==
    IF req[p].op = "index"
    THEN ids \cup {WriteResponse(p).id}
    ELSE ids \ {req[p].id}

\* writer.commit()?, then the response; the guard drops at return.
Commit(p) ==
    LET t == req[p].user
        x == PathOf(t)
    IN  /\ pc[p] = "commit"
        /\ \/ /\ committed' = [committed EXCEPT ![x] = ApplyOps(@, pending[t])]
              /\ pending' = [pending EXCEPT ![t] = <<>>]
              /\ Finish(p, WriteResponse(p))
              /\ acked' = [acked EXCEPT ![t] = AckedAfter(p, @)]
              /\ claimed' = [claimed EXCEPT ![t] = ClaimedAfter(p, @)]
              /\ UNCHANGED faults
           \/ /\ faults < MaxFaults
              /\ faults' = faults + 1
              /\ pending' = [pending EXCEPT ![t] = QueueAfterError(@)]
              /\ Finish(p, ErrorResponse(req[p]))
              /\ UNCHANGED <<committed, acked, claimed>>
        /\ lock' = GuardDropped(lock, t)
        /\ UNCHANGED <<dir, indexes, reader, req, loc, reqs, nextUuid, base, dirty, built>>

\* ------------------------------------------------- IndexManager: read paths
\* What reader.reload() loads: the segments of the last commit.
Reloaded(t) == committed[PathOf(t)]

\* handle.reader.reload()?
Reload(p) ==
    LET t == req[p].user
    IN  /\ pc[p] = "reload"
        /\ \/ /\ reader' = [reader EXCEPT ![t] = Reloaded(t)]
              /\ pc' = [pc EXCEPT ![p] = "exec"]
              /\ UNCHANGED <<resp, faults>>
           \/ /\ faults < MaxFaults
              /\ faults' = faults + 1
              /\ Finish(p, ErrorResponse(req[p]))
              /\ UNCHANGED reader
        /\ UNCHANGED <<diskVars, indexes, lock, pending, req, loc, reqs, nextUuid, ghostVars>>

\* The reader's own reload after a commit (ReloadPolicy::OnCommitWithDelay,
\* the policy of index.reader()).
AutoReload(t) ==
    /\ indexes[t]
    /\ reader[t] # Reloaded(t)
    /\ reader' = [reader EXCEPT ![t] = Reloaded(t)]
    /\ UNCHANGED <<diskVars, indexes, lock, pending, taskVars, envVars, ghostVars>>

\* Ghost: the stored documents a response returns or counts.
Seen(docs, hits) == {docs[hits[i]] : i \in 1..Len(hits)}

\* The documents of `docs` that carry one of the filter's tags and its source.
RECURSIVE Filtered(_, _)
Filtered(docs, f) ==
    IF docs = <<>> THEN <<>>
    ELSE LET d == Head(docs)
             keep == /\ f.tags = <<>> \/ \E i \in 1..Len(f.tags), j \in 1..Len(d.tags) :
                                             f.tags[i] = d.tags[j]
                     /\ f.source = NoneVal \/ f.source = d.source
         IN  (IF keep THEN <<d>> ELSE <<>>) \o Filtered(Tail(docs), f)

\* A plausible change: the search applies the filters of the query.
SearchResponseFiltered(r, docs, build) ==
    LET q == ParseQuery(r.query)
        n == FetchSize(Min(r.limit, 100), r.offset, build)
        kept == Filtered(docs, r.filters)
        hits == SearchHits(kept, q.terms, r.limit, r.offset, n)
    IN  IF ~q.ok THEN ErrorResponse(r)
        ELSE IF n < 1 THEN Status(0, "panic")
        ELSE [OkStatus(r) EXCEPT
                !.results = [i \in 1..Len(hits) |-> ProjectSearch(kept[hits[i]])],
                !.total = Len(hits),
                !.seen = Seen(kept, hits)]

\* The response of a search whose window holds `hits`.
SearchResult(r, docs, hits) ==
    [OkStatus(r) EXCEPT
        !.results = [i \in 1..Len(hits) |-> ProjectSearch(docs[hits[i]])],
        !.total = Len(hits),
        !.seen = Seen(docs, hits)]

\* search, from reader.searcher() to the response.  `limit + offset` panics
\* on overflow when checked, and TopDocs::with_limit panics on 0.  The
\* terms and the hits are computed once and then projected.
SearchResponse(r, docs, build) ==
    LET q == ParseQuery(r.query)
        n == FetchSize(Min(r.limit, 100), r.offset, build)
    IN  IF ~q.ok THEN ErrorResponse(r)
        ELSE IF n < 1 THEN Status(0, "panic")
        ELSE CHOOSE x \in {SearchResult(r, docs, hits) :
                             hits \in {SearchHits(docs, terms, r.limit, r.offset, n) :
                                          terms \in {q.terms}}} : TRUE

\* browse_documents, from reader.searcher() to the response.
BrowseResponse(r, docs, build) ==
    LET n == FetchSize(Min(r.limit, 1000), r.offset, build)
        hits == BrowseHits(docs, r.limit, r.offset, n)
    IN  IF n < 1 THEN Status(0, "panic")
        ELSE [OkStatus(r) EXCEPT
                !.results = [i \in 1..Len(hits) |-> ProjectBrowse(docs[hits[i]])],
                !.total = Len(hits),
                !.seen = Seen(docs, hits)]

\* get_user_stats, from reader.searcher() to the response.
StatsResponse(r, docs) ==
    [OkStatus(r) EXCEPT
        !.count = Len(docs),
        !.seen = {docs[i] : i \in 1..Len(docs)}]

ReadResponse(r, docs, build) ==
    CASE r.op = "search" -> SearchResponse(r, docs, build)
      [] r.op = "browse" -> BrowseResponse(r, docs, build)
      [] OTHER -> StatsResponse(r, docs)

\* reader.searcher() and the query on it, in either build.
Exec(p) ==
    /\ pc[p] = "exec"
    /\ \E build \in Builds : Finish(p, ReadResponse(req[p], reader[req[p].user], build))
    /\ UNCHANGED <<diskVars, handleVars, req, loc, envVars, ghostVars>>

\* ------------------------------------------------------------------ Next
\* A step of task p inside the IndexManager.
CoreStep(p) ==
    \/ GetOrCreateFast(p)
    \/ GetOrCreateSlow(p)
    \/ IndexPrepare(p)
    \/ WriterLock(p)
    \/ DeleteTerm(p)
    \/ AddDocument(p)
    \/ Commit(p)
    \/ Reload(p)
    \/ Exec(p)

\* Concurrent clients on two tenants.
Next ==
    \/ \E p \in Tasks : Request(p)
    \/ \E p \in Tasks : CoreStep(p)
    \/ \E t \in Tenants : AutoReload(t)

Spec == Init /\ [][Next]_vars

\* One client sending well-formed requests one after the other.
SeqTask == "p1"

NextSeq ==
    \/ SeqRequest(SeqTask)
    \/ CoreStep(SeqTask)
    \/ \E t \in Tenants : AutoReload(t)

SpecSeq == Init /\ [][NextSeq]_vars

\* The HTTP edge in front of the core: one client sending requests of every
\* kind, one after the other.
NextEdge ==
    \/ EdgeRequest(SeqTask)
    \/ CoreStep(SeqTask)
    \/ \E t \in Tenants : AutoReload(t)

SpecEdge == Init /\ [][NextEdge]_vars

\* ======================================================================
\* Properties
\* ======================================================================
Succeeded(p) == pc[p] = "done" /\ resp[p].kind = "ok"

Live(t) == committed[PathOf(t)]

IdsOf(docs) == {docs[i].id : i \in 1..Len(docs)}

UniqueIds(docs) ==
    \A i, j \in 1..Len(docs) : docs[i].id = docs[j].id => i = j

\* C1: in every reachable state, under every interleaving of index_document
\* and delete_document calls, the committed index of each tenant (and what
\* its reader has loaded) holds at most one live document per id.
C1_IdUniqueness ==
    \A t \in Tenants : UniqueIds(Live(t)) /\ UniqueIds(reader[t])

\* Both clients have upserted the same id on the same tenant with different
\* content, and the id is live.
C1_Witness ==
    \E p, q \in Tasks :
        /\ p # q
        /\ Succeeded(p) /\ Succeeded(q)
        /\ req[p].op = "index" /\ req[q].op = "index"
        /\ req[p].user = req[q].user
        /\ req[p].input.id = <<"d">> /\ req[q].input.id = <<"d">>
        /\ req[p].input.title # req[q].input.title
        /\ <<"d">> \in IdsOf(Live(req[p].user))

\* Task p takes this step.
Moves(p) == pc'[p] # pc[p] \/ req'[p] # req[p]

OwnedBy(docs, t) == \A i \in 1..Len(docs) : docs[i].owner = t

\* Every document a tenant's index holds, and every document a finished read
\* of the tenant returned or counted, was written by that tenant.
C2_OnlyOwnDocuments ==
    /\ \A t \in Tenants : OwnedBy(Live(t), t) /\ OwnedBy(reader[t], t)
    /\ \A p \in Tasks :
          pc[p] = "done" /\ req[p].op \in ReadOps =>
              \A d \in resp[p].seen : d.owner = req[p].user

\* A step of a request of one tenant leaves the index, the reader, the writer
\* queue and the registry entry of every other tenant as they were.
C2_OtherTenantsUntouched ==
    \A p \in Tasks :
        Moves(p) =>
            \A t \in Tenants \ {req'[p].user} :
                /\ committed'[PathOf(t)] = committed[PathOf(t)]
                /\ reader'[t] = reader[t]
                /\ pending'[t] = pending[t]
                /\ indexes'[t] = indexes[t]

\* C2: for distinct tenants T1 # T2, no search, browse or stats on T2 returns
\* or counts a document written on T1, also with the same id and content, and
\* no step of a request on T1 changes what a read on T2 is computed from.
C2_TenantIsolation == []C2_OnlyOwnDocuments /\ [][C2_OtherTenantsUntouched]_vars

\* A read on T2 has counted T2's document while T1 holds a document with the
\* same id and the same content.
C2_Witness ==
    \E p \in Tasks :
        /\ Succeeded(p) /\ req[p].op \in ReadOps /\ req[p].user = "T2"
        /\ resp[p].seen # {}
        /\ \E i \in 1..Len(Live("T1")), j \in 1..Len(Live("T2")) :
              /\ Live("T1")[i].id = Live("T2")[j].id
              /\ Live("T1")[i].title = Live("T2")[j].title
              /\ Live("T1")[i].body = Live("T2")[j].body

\* A read of task p has finished with a result.
ReadDone(p) == Succeeded(p) /\ req[p].op \in ReadOps

\* The window of the finished read of p leaves out no hit: it starts at the
\* first hit and is not full.
WholeWindow(p) ==
    \/ req[p].op = "stats"
    \/ /\ req[p].offset = 0
       /\ resp[p].total < req[p].limit

\* Document d is one the finished read of p has to show: stats and browse
\* cover every document, search those its query matches.
Concerns(p, d) ==
    /\ WholeWindow(p)
    /\ req[p].op = "search" => Score(d, ParseQuery(req[p].query).terms) > 0

\* C3 as stated: a document whose index_document returned success before the
\* read began, with no delete or replacement of its id since (none finished,
\* none overlapping the read), is observed by the read: counted by stats,
\* listed by browse, returned by the searches it matches.
C3_ReadAfterCommit ==
    \A p \in Tasks :
        ReadDone(p) =>
            \A d \in base[p] :
                d.gen >= 1 /\ d.id \notin dirty[p] /\ Concerns(p, d.doc) =>
                    \E s \in resp[p].seen : s.id = d.id

\* C4 as stated: once index_document(T, {id: D, v1}) and then
\* index_document(T, {id: D, v2}) have returned success, a later read that
\* projects D (with no write of D since) returns v2's title and body.
C4_LastWriteWins ==
    \A p \in Tasks :
        ReadDone(p) =>
            \A d \in base[p] :
                d.gen >= 2 /\ d.id \notin dirty[p] =>
                    \A i \in 1..Len(resp[p].results) :
                        resp[p].results[i].id = d.id =>
                            /\ resp[p].results[i].title = d.doc.title
                            /\ resp[p].results[i].body = d.doc.body

\* C6 as stated: once delete_document(T, D) has returned success, a search or
\* browse that begins afterwards returns no document with id D and stats does
\* not count one, until D is upserted again.
C6_DeletedStaysGone ==
    \A p \in Tasks :
        ReadDone(p) =>
            \A d \in base[p] :
                d.gen = 0 /\ d.id \notin dirty[p] =>
                    /\ \A s \in resp[p].seen : s.id # d.id
                    /\ \A i \in 1..Len(resp[p].results) : resp[p].results[i].id # d.id

\* No index_document or delete_document is in flight on tenant t.
NoWriteInFlight(t) ==
    \A p \in Tasks : ~(InFlight(p) /\ req[p].op \in WriteOps /\ req[p].user = t)

\* C7 as stated: an index_document or delete_document that failed after
\* issuing its delete-by-term or its add leaves no effect that becomes
\* visible: whenever no write is in flight on a tenant, its committed
\* documents are exactly those the successful writes stored.
C7_FailedWriteInvisible ==
    \A t \in Tenants :
        NoWriteInFlight(t) =>
            {Live(t)[i] : i \in 1..Len(Live(t))} = {e.doc : e \in {a \in acked[t] : a.gen >= 1}}

\* C5 as stated: the id of a successful index response is input.id when an id
\* was supplied, and otherwise the id under which the document is stored.
C5_ResponseIdIsStoredId ==
    \A p \in Tasks :
        Succeeded(p) /\ req[p].op = "index" =>
            /\ req[p].input.id # NoneVal => resp[p].id = req[p].input.id
            /\ resp[p].id = loc[p].doc.id

\* ----------------------------------------------------------- the HTTP edge
ValidHeaders == {UuidStr(t) : t \in Tenants}

\* Task p serves (or served last) an HTTP request with a valid X-User-Id.
Authenticated(p) == req[p].via = "http" /\ req[p].header \in ValidHeaders

Rejected(p, status, kind) ==
    pc[p] = "done" /\ resp[p].status = status /\ resp[p].kind = kind

EmptyAfterTrim(s) == \A i \in 1..Len(s) : s[i] = SP

\* The request of p is an upsert whose title or body is empty after trimming.
EmptyUpsert(r) ==
    r.op = "index" /\ (EmptyAfterTrim(r.input.title) \/ EmptyAfterTrim(r.input.body))

C8_Rejected ==
    \A p \in Tasks :
        Authenticated(p) /\ EmptyUpsert(req[p]) => Rejected(p, 422, "validation_error")

C8_WritesNothing ==
    \A p \in Tasks :
        Moves(p) /\ req'[p].via = "http" /\ EmptyUpsert(req'[p]) =>
            UNCHANGED <<diskVars, handleVars, nextUuid>>

\* C8: an upsert whose title or body is empty after trimming is answered 422
\* validation_error at once (it never enters the IndexManager), and the step
\* serving it leaves the indexes, the writers and the registry unchanged.
C8_EmptyUpsertRejected == []C8_Rejected /\ [][C8_WritesNothing]_vars

\* An upsert with a whitespace-only title has been rejected while the tenant's
\* index holds a document.
C8_Witness ==
    \E p \in Tasks :
        /\ Authenticated(p) /\ req[p].op = "index"
        /\ req[p].input.title = <<SP, SP>>
        /\ Rejected(p, 422, "validation_error")
        /\ Live(req[p].user) # <<>>

\* The request of p is a search or browse the validation is to reject.
BadSearch(r) ==
    r.op = "search" /\ (EmptyAfterTrim(r.query) \/ r.limit < 1 \/ r.limit > 100)

BadBrowse(r) == r.op = "browse" /\ (r.limit < 1 \/ r.limit > 1000)

\* C9 as stated: a search whose query is empty after trimming or whose limit
\* is outside [1,100], and a browse whose limit is outside [1,1000], are
\* answered 422 validation_error without running a query.
C9_BadReadRejected ==
    \A p \in Tasks :
        Authenticated(p) /\ (BadSearch(req[p]) \/ BadBrowse(req[p])) =>
            Rejected(p, 422, "validation_error")

\* The half of C9 the router does not decide: searches.
C9_BadSearchRejected ==
    \A p \in Tasks :
        Authenticated(p) /\ BadSearch(req[p]) => Rejected(p, 422, "validation_error")

\* The five endpoints the interface table puts behind X-User-Id.
AuthenticatedEndpoints == {"index", "delete", "search", "browse", "stats"}

\* The step serving a request without a valid X-User-Id leaves the indexes,
\* the writers and the registry unchanged. (This half of C10 holds.)
C10_CoreUntouched ==
    [][\A p \in Tasks :
          Moves(p) /\ req'[p].via = "http" /\ req'[p].header \notin ValidHeaders =>
              UNCHANGED <<diskVars, handleVars, nextUuid>>]_vars

\* The statement of C10 over the endpoints build_router serves.
C10_RoutedRejected ==
    \A p \in Tasks :
        req[p].via = "http" /\ req[p].op \in RouteTable =>
            /\ req[p].header = NoneVal => Rejected(p, 401, "missing_auth")
            /\ req[p].header # NoneVal /\ req[p].header \notin ValidHeaders =>
                  Rejected(p, 401, "invalid_auth")

\* C10 as stated: a request to any of the authenticated endpoints without
\* X-User-Id is answered 401 missing_auth, and one whose X-User-Id is no UUID
\* is answered 401 invalid_auth.
C10_AuthFailureRejected ==
    \A p \in Tasks :
        req[p].via = "http" /\ req[p].op \in AuthenticatedEndpoints =>
            /\ req[p].header = NoneVal => Rejected(p, 401, "missing_auth")
            /\ req[p].header # NoneVal /\ req[p].header \notin ValidHeaders =>
                  Rejected(p, 401, "invalid_auth")

\* ------------------------------------------------------- delete of an absent id
\* Task p takes the commit step of a delete whose id has no live document.
DeletesAbsentId(p) ==
    /\ pc[p] = "commit" /\ pc'[p] = "done"
    /\ req[p].op = "delete"
    /\ req[p].id \notin IdsOf(Live(req[p].user))

\* C11 as stated: delete_document(T, D) for an id D with no live document in
\* T returns success unless the commit itself fails, and its commit leaves the
\* live documents of T as they were.
C11_DeleteOfAbsentId ==
    [][\A p \in Tasks :
          DeletesAbsentId(p) =>
              /\ resp'[p].kind # "ok" => faults' = faults + 1
              /\ resp'[p].kind = "ok" =>
                    committed'[PathOf(req[p].user)] = committed[PathOf(req[p].user)]]_vars

\* ------------------------------------------------------------------ stats
\* C12 as stated: get_user_stats(T) returns the number of distinct ids the
\* successful upserts on T were answered with and no successful delete has
\* removed since: 0 for a tenant never written to, 2 after two upserts
\* without an id.
C12_StatsCountsLiveIds ==
    \A p \in Tasks :
        Succeeded(p) /\ req[p].op = "stats" /\ NoWriteInFlight(req[p].user) =>
            resp[p].count = Cardinality(claimed[req[p].user])

\* ----------------------------------------------------------- search window
\* The request is a search the validation accepts.
ValidSearch(r) ==
    r.op = "search" /\ ~EmptyAfterTrim(r.query) /\ r.limit >= 1 /\ r.limit <= 100

\* The score-ordered list of all hits of r on `docs` (positions in docs).
RankedHits(r, docs) ==
    LET terms == ParseQuery(r.query).terms
    IN  Ranked(docs, terms, {i \in 1..Len(docs) : Score(docs[i], terms) > 0})

\* The response of x is the window of r on docs: the hits at ranked positions
\* offset .. offset+limit-1, fewer when the list is shorter, and total is
\* their number.
IsWindow(x, r, docs) ==
    LET ranked == RankedHits(r, docs)
        left == Len(ranked) - r.offset
        size == IF left < 0 THEN 0 ELSE Min(r.limit, left)
    IN  /\ x.kind = "ok"
        /\ Len(x.results) = size
        /\ \A i \in 1..size : x.results[i] = ProjectSearch(docs[ranked[r.offset + i]])
        /\ x.total = size
        /\ x.total <= r.limit

\* Task p has finished a valid, parseable search that no engine fault cut short.
SearchRan(p) ==
    /\ pc[p] = "done" /\ Authenticated(p)
    /\ ValidSearch(req[p]) /\ ParseQuery(req[p].query).ok
    /\ resp[p] # ErrorResponse(req[p])

\* C13 as stated: for every search with valid limit and offset, the results
\* are exactly the hits at ranked positions offset .. offset+limit-1 of the
\* score-ordered hit list and total is the number of returned results.
C13_SearchWindow ==
    \A p \in Tasks :
        SearchRan(p) => IsWindow(resp[p], req[p], reader[req[p].user])

\* The statement of C13 for the searches whose limit + offset fits in usize.
C13_WindowWithoutOverflow ==
    \A p \in Tasks :
        SearchRan(p) /\ req[p].limit + req[p].offset <= UsizeMax =>
            IsWindow(resp[p], req[p], reader[req[p].user])

\* A search with limit 1 and offset 1 has returned the second-ranked of two
\* hits.
C13_SecondPage ==
    \E p \in Tasks :
        /\ SearchRan(p) /\ req[p].offset = 1 /\ req[p].limit = 1
        /\ Len(RankedHits(req[p], reader[req[p].user])) = 2
        /\ resp[p].total = 1

\* ------------------------------------------------------------ browse route
\* C14 as stated: an authenticated POST /v1/browse with a valid BrowseQuery
\* reaches the browse handler and is answered 200 with a BrowseResponse
\* (unless the engine fails underneath).
C14_BrowseIsServed ==
    \A p \in Tasks :
        /\ pc[p] = "done" /\ Authenticated(p)
        /\ req[p].op = "browse" /\ ~BadBrowse(req[p])
        => \/ resp[p].status = 200 /\ resp[p].kind = "ok"
           \/ resp[p] = ErrorResponse(req[p])

\* -------------------------------------------------------- error responses
\* The step ends the HTTP request of p with an index I/O failure: an engine
\* call returned an error, or the index could not be opened.
IoFailure(p) ==
    /\ req[p].via = "http"
    /\ pc[p] # "done" /\ pc'[p] = "done"
    /\ faults' # faults \/ pc[p] = "slow"

\* C15 as stated: an index I/O failure (open, create, write or commit)
\* surfaces as HTTP 500 with error kind index_error, whichever operation hit
\* it.
C15_IoFailureIsIndexError ==
    [][\A p \in Tasks :
          IoFailure(p) => resp'[p].status = 500 /\ resp'[p].kind = "index_error"]_vars

\* The statement of C15 for upsert and delete.
C15_WriteFailureIsIndexError ==
    [][\A p \in Tasks :
          IoFailure(p) /\ req[p].op \in WriteOps =>
              resp'[p].status = 500 /\ resp'[p].kind = "index_error"]_vars

\* Task p has finished an HTTP request with an error status.
ErrorAnswer(p) == pc[p] = "done" /\ req[p].via = "http" /\ resp[p].status >= 400

\* C16 as stated: every error response carries an error kind and a message
\* (the JSON error body), with `details` present exactly when the kind is
\* internal_error.
C16_ErrorShape ==
    \A p \in Tasks :
        ErrorAnswer(p) =>
            /\ resp[p].body = "error"
            /\ resp[p].details # NoneVal <=> resp[p].kind = "internal_error"

\* The statement of C16 for the error responses AppError and AuthError build.
C16_DetailsOnlyForInternal ==
    \A p \in Tasks :
        ErrorAnswer(p) /\ resp[p].body = "error" =>
            (resp[p].details # NoneVal <=> resp[p].kind = "internal_error")

\* A stats request has been answered internal_error with its cause.
C16_InternalSeen ==
    \E p \in Tasks :
        ErrorAnswer(p) /\ resp[p].kind = "internal_error" /\ resp[p].details = Cause

\* ------------------------------------------------------------------ restart
\* Number of requests in one behaviour of the restart specification.
MaxRestartReqs == 4

\* Tenant t has a request inside IndexHandle::new creating its index.
Creating(t) ==
    \E p \in Tasks : pc[p] = "slow" /\ req[p].user = t /\ ~indexes[t] /\ dir[PathOf(t)] = "absent"

\* The process stops (it exits, or is killed at any point) and starts again on
\* the same base_dir: main builds IndexManager::new with an empty registry.
\* Handles, writers with their uncommitted operations, readers and requests
\* in flight are gone; commits and directories stay.  A process killed inside
\* IndexHandle::new leaves what the steps done so far put on disk.
Restart ==
    /\ \/ \E t \in Tenants : indexes[t]
       \/ \E p \in Tasks : InFlight(p)
    /\ \E d \in [Paths -> {"absent", "empty", "index"}] :
          /\ \A t \in Tenants :
                d[PathOf(t)] \in (IF Creating(t) THEN HandleNewFaults("absent")
                                  ELSE {dir[PathOf(t)]})
          /\ dir' = d
    /\ indexes' = [t \in Tenants |-> FALSE]
    /\ lock' = [t \in Tenants |-> NoTask]
    /\ pending' = [t \in Tenants |-> <<>>]
    /\ reader' = [t \in Tenants |-> <<>>]
    /\ pc' = [p \in Tasks |-> "idle"]
    /\ req' = [p \in Tasks |-> NoReq]
    /\ loc' = [p \in Tasks |-> NoLoc]
    /\ resp' = [p \in Tasks |-> NoResp]
    /\ base' = [p \in Tasks |-> {}]
    /\ dirty' = [p \in Tasks |-> {}]
    /\ built' = [t \in Tenants |-> 0]
    /\ UNCHANGED <<committed, envVars, acked, claimed>>

\* What the client of SpecRestart sends.
RestartReqs ==
    {WithHeader(r, UuidStr("T1")) :
        r \in {IndexReq(InputV1(NoneVal)), IndexReq(InputV1(<<"d">>)),
               IndexReq(InputV2(<<"d">>)), StatsReq, SearchReq(<<"x", SP, "r">>, 10, 0)}
              \cup FilteredPayloads}
    \cup CoreCalls

RestartRequest(p) ==
    /\ reqs < MaxRestartReqs
    /\ \E r \in RestartReqs : Arrive(p, r)

\* One client, and a process that may stop and start again at any point.
NextRestart ==
    \/ RestartRequest(SeqTask)
    \/ CoreStep(SeqTask)
    \/ \E t \in Tenants : AutoReload(t)
    \/ Restart

SpecRestart == Init /\ [][NextRestart]_vars

\* Task p takes the slow path of get_or_create_index on a directory that is
\* already there, and no engine call fails.
Reopens(p) ==
    /\ pc[p] = "slow" /\ pc'[p] \notin {"slow", "idle"}
    /\ ~indexes[req[p].user]
    /\ dir[PathOf(req[p].user)] # "absent"
    /\ faults' = faults

\* C17 as stated: after a restart, opening the same base_dir restores every
\* tenant: the handle of a tenant whose directory is there opens, and its
\* reads are computed from exactly the documents committed before.
C17_RestartRestores ==
    [][\A p \in Tasks :
          Reopens(p) =>
              /\ pc'[p] # "done"
              /\ indexes'[req[p].user]
              /\ reader'[req[p].user] = committed[PathOf(req[p].user)]
              /\ committed' = committed]_vars

\* The statement of C17 for the directories that hold an index.
C17_IndexReopens ==
    [][\A p \in Tasks :
          Reopens(p) /\ dir[PathOf(req[p].user)] = "index" =>
              /\ pc'[p] # "done"
              /\ indexes'[req[p].user]
              /\ reader'[req[p].user] = committed[PathOf(req[p].user)]
              /\ committed' = committed]_vars

\* A stats request finished after a restart counts the documents committed.
C17_StatsAfterReopen ==
    \A p \in Tasks :
        Succeeded(p) /\ req[p].op = "stats" =>
            resp[p].count = Len(committed[PathOf(req[p].user)])

\* --------------------------------------------------------------- round trip
SetOf(seq) == {seq[i] : i \in 1..Len(seq)}

\* The projection x shows the input that stored document d was built from:
\* each of id, title, body, tags and source that x carries equals the input
\* value (tags as a set), and created_at denotes the supplied instant.
ShowsInput(x, d) ==
    /\ d.input.id # NoneVal => x.id = d.input.id
    /\ x.title = d.input.title
    /\ x.body = d.input.body
    /\ "tags" \in DOMAIN x => SetOf(x.tags) = SetOf(d.input.tags)
    /\ "source" \in DOMAIN x => x.source = d.input.source
    /\ d.input.created_at # NoneVal => ParseRfc3339(x.created_at) = d.input.created_at

Unfiltered(r) == [r EXCEPT !.filters = NoFilters]

\* Task p has finished a search of the index that no engine fault cut short.
SearchAnswered(p) ==
    /\ pc[p] = "done" /\ req[p].op = "search"
    /\ EdgeResponse(req[p]) = NoResp
    /\ resp[p] # ErrorResponse(req[p])

EmptyDelete(r) == r.op = "delete" /\ r.json = "ok" /\ EmptyAfterTrim(r.id)

C20_Rejected ==
    \A p \in Tasks :
        Authenticated(p) /\ EmptyDelete(req[p]) /\ pc[p] # "idle" =>
            Rejected(p, 422, "validation_error")

C20_WritesNothing ==
    \A p \in Tasks :
        Moves(p) /\ req'[p].via = "http" /\ EmptyDelete(req'[p]) =>
            UNCHANGED <<diskVars, handleVars, nextUuid>>

\* C20: a delete whose id is empty after trimming is answered 422
\* validation_error at once, and the step serving it issues no delete-by-term,
\* commits nothing and creates no handle: indexes, writers and registry stay
\* as they were.
C20_EmptyDeleteRejected == []C20_Rejected /\ [][C20_WritesNothing]_vars

\* A delete with a whitespace-only id has been rejected while the tenant's
\* index holds a document.
C20_Witness ==
    \E p \in Tasks :
        /\ Authenticated(p) /\ req[p].op = "delete" /\ req[p].id = <<SP>>
        /\ Rejected(p, 422, "validation_error")
        /\ Live(req[p].user) # <<>>

\* -------------------------------------------------------------- empty index
\* The index task p searched holds no documents.
SearchedEmpty(p) ==
    SearchRan(p) /\ Live(req[p].user) = <<>> /\ reader[req[p].user] = <<>>

EmptyResult(x) == x.kind = "ok" /\ x.results = <<>> /\ x.total = 0

\* C21 as stated: a valid search on a tenant whose index holds no documents
\* (a tenant seen for the first time included) succeeds with results = [] and
\* total = 0.
C21_EmptyIndexSearch ==
    \A p \in Tasks : SearchedEmpty(p) => EmptyResult(resp[p])

\* The statement of C21 for the searches whose limit + offset fits in usize.
C21_EmptyWithoutOverflow ==
    \A p \in Tasks :
        SearchedEmpty(p) /\ req[p].limit + req[p].offset <= UsizeMax =>
            EmptyResult(resp[p])

\* The first request of a tenant is a search, and it is answered 200 with no
\* results.
C21_FirstSeen ==
    \E p \in Tasks :
        /\ SearchedEmpty(p) /\ reqs = 1
        /\ resp[p].status = 200 /\ EmptyResult(resp[p])

\* -------------------------------------------------------- writer exclusivity
\* Task p is between the acquisition of the writer lock and its return.
Mutating(p) == pc[p] \in {"delterm", "add", "commit"}

\* At most one mutation per tenant holds the writer, and it holds the lock.
C22_OneMutation ==
    \A p \in Tasks :
        Mutating(p) =>
            /\ lock[req[p].user] = p
            /\ \A q \in Tasks \ {p} : Mutating(q) => req[q].user # req[p].user

\* The writer's queue and the committed index of a tenant change only in
\* steps of the task that holds the tenant's writer lock.
C22_OnlyTheHolderWrites ==
    \A t \in Tenants :
        pending'[t] # pending[t] \/ committed'[PathOf(t)] # committed[PathOf(t)] =>
            lock[t] # NoTask /\ Moves(lock[t])

\* C22: for every tenant, at most one index_document or delete_document is
\* between its lock acquisition and its return at any time, and the lock is
\* held across the whole delete-by-term / add / commit sequence, under every
\* interleaving.
C22_WriterExclusivity == []C22_OneMutation /\ [][C22_OnlyTheHolderWrites]_vars

\* One upsert is about to commit while another write on the same tenant waits
\* for the writer lock.
C22_Witness ==
    \E p, q \in Tasks :
        /\ p # q /\ req[p].user = req[q].user
        /\ pc[p] = "commit" /\ req[p].op = "index"
        /\ pc[q] = "lock" /\ lock[req[q].user] = p

\* ------------------------------------------------------------ one handle
\* Task p has returned from get_or_create_index with a handle.
HasHandle(p) == InFlight(p) /\ pc[p] \notin {"goc", "slow"}

\* C23: under every interleaving of concurrent get_or_create_index calls, at
\* most one IndexHandle (one writer on the tenant's directory) is made and
\* cached per tenant, the registry holds a handle exactly when one was made,
\* and every caller receives that handle.
C23_SingleHandle ==
    /\ \A t \in Tenants : built[t] <= 1 /\ (indexes[t] <=> built[t] = 1)
    /\ \A p \in Tasks : HasHandle(p) => loc[p].handle = 1

\* One client missed the fast path and waits for the write guard while the
\* other has made and cached the tenant's handle in between: the first will
\* find it in the double-check.
C23_Witness ==
    \E p, q \in Tasks :
        /\ p # q /\ req[p].user = req[q].user
        /\ pc[p] = "slow" /\ RecheckHit(req[p].user)
        /\ HasHandle(q) /\ loc[q].handle = 1

\* ------------------------------------------------------------ lock order
\* The effect of the write of p applied alone to `docs`: an upsert replaces
\* the document of its id, a delete removes it.
AppliedAlone(p, docs) ==
    IF req[p].op = "index"
    THEN Append(WithoutId(docs, loc[p].doc.id), loc[p].doc)
    ELSE WithoutId(docs, req[p].id)

\* Task p returns success from its write in this step.
WriteReturns(p) ==
    /\ pc[p] = "commit" /\ pc'[p] = "done"
    /\ resp'[p].kind = "ok"

\* C24 as stated: the writes of a tenant take effect one at a time in the
\* order they acquire the writer lock: the committed state after a write
\* returns is the state before it with that write applied, so a write that
\* acquires the lock after another's commit returned is applied on top of it.
C24_LockOrder ==
    [][\A p \in Tasks :
          WriteReturns(p) =>
              committed'[PathOf(req[p].user)] =
                  AppliedAlone(p, committed[PathOf(req[p].user)])]_vars

\* Two upserts of the same id by concurrent clients have both returned, and
\* the index holds one document of the id.
C24_BothApplied ==
    \E p, q \in Tasks :
        /\ p # q /\ Succeeded(p) /\ Succeeded(q)
        /\ req[p].op = "index" /\ req[q].op = "index"
        /\ req[p].user = req[q].user
        /\ req[p].input.id = <<"d">> /\ req[q].input.id = <<"d">>
        /\ Len(Live(req[p].user)) = 1
        /\ faults = 0

\* ------------------------------------------------ a reader beside a writer
\* Number of requests in one behaviour of the specification below.
MaxRaceReqs == 4

Writer == "p1"
Reader == "p2"

\* What the writing client sends: upserts of one id in two versions and an
\* upsert without id.
RaceWrites == {WithHeader(IndexReq(i), UuidStr("T1")) : i \in ValidInputs}

\* What the reading client sends: reads that cover every document.
RaceReads == {WithHeader(StatsReq, UuidStr("T1")), AsCore(BrowseReq(50, 0), "T1")}

RaceRequest ==
    /\ reqs < MaxRaceReqs
    /\ \/ \E r \in RaceWrites : Arrive(Writer, r)
       \/ \E r \in RaceReads : Arrive(Reader, r)

\* One client writing and one client reading the same tenant concurrently.
NextRace ==
    \/ RaceRequest
    \/ \E p \in Tasks : CoreStep(p)
    \/ \E t \in Tenants : AutoReload(t)

SpecRace == Init /\ [][NextRace]_vars

\* Task p returns from a read that covers every document in this step.
ReadReturns(p) ==
    /\ pc[p] = "exec" /\ pc'[p] = "done"
    /\ req[p].op \in ReadOps /\ resp'[p].kind = "ok"
    /\ req[p].op = "stats" \/ (req[p].offset = 0 /\ resp'[p].total < req[p].limit)

\* Document e.id was stored by a successful upsert before the read of p
\* began, a write of the id overlaps the read, and no delete of the id has
\* succeeded since the read began.
ReplacedMeanwhile(p, e) ==
    /\ e \in base[p] /\ e.gen >= 1
    /\ e.id \in dirty[p]
    /\ \E a \in acked[req[p].user] : a.id = e.id /\ a.dels = e.dels

\* C25 as stated: a read that runs concurrently with an index_document
\* replacing an existing document D observes exactly one document of D's id,
\* built by an upsert of that id: the old version or the new, never both and
\* never neither.
C25_OldOrNew ==
    [][\A p \in Tasks :
          ReadReturns(p) =>
              \A e \in base[p] :
                  ReplacedMeanwhile(p, e) =>
                      /\ Cardinality({d \in resp'[p].seen : d.id = e.id}) = 1
                      /\ \A d \in resp'[p].seen : d.id = e.id => d.input.id = e.id]_vars

\* A read overlapped by a successful replacement of D returned the new
\* version.
C25_SawNew ==
    \E p \in Tasks :
        /\ ReadDone(p) /\ faults = 0
        /\ \E e \in base[p] :
              /\ e.gen >= 1 /\ e.id \in dirty[p]
              /\ \E d \in resp[p].seen : d.id = e.id /\ d # e.doc

\* ------------------------------------------------------- lock release
\* Task p returns from index_document or delete_document in this step, having
\* held the writer lock.
LeavesWrite(p) == Mutating(p) /\ pc'[p] = "done"

\* The writer lock is held only by a write between acquisition and return.
C26_HeldOnlyInside ==
    \A t \in Tenants :
        lock[t] # NoTask => Mutating(lock[t]) /\ req[lock[t]].user = t

\* The step in which a write returns, with success or with an add or commit
\* error, frees the tenant's writer lock.
C26_FreedOnReturn ==
    \A p \in Tasks : LeavesWrite(p) => lock'[req[p].user] = NoTask

\* C26: the writer lock is released on every exit path of index_document and
\* delete_document: once the call has returned, with success or with an add
\* or commit error, the tenant's lock is free, and a later write on the tenant
\* can acquire it.
C26_LockReleased == []C26_HeldOnlyInside /\ [][C26_FreedOnReturn]_vars

\* A write that failed in add_document or commit has returned its error, and
\* a later write of the other client on the same tenant holds the lock.
C26_Witness ==
    \E p, q \in Tasks :
        /\ p # q /\ req[p].user = req[q].user
        /\ pc[p] = "done" /\ req[p].op \in WriteOps
        /\ resp[p] = ErrorResponse(req[p]) /\ indexes[req[p].user]
        /\ faults = 1 /\ loc[p].handle = 1
        /\ lock[req[q].user] = q

\* ------------------------------------------------------------ cancellation
\* Number of requests in one behaviour of the specification below.
MaxCancelReqs == 3

\* A plausible change: add_document awaits (an async writer), so the task
\* can be dropped between delete_term and commit.
SuspensionPointsWithAdd == {"goc", "slow", "lock", "add"}

\* The positions at which a request's future is pending and can be dropped:
\* the awaits on indexes.read(), indexes.write() and writer.lock().  From
\* the lock to the return the code awaits nothing.
SuspensionPoints == {"goc", "slow", "lock"}

\* TimeoutLayer: the response once 30 seconds have passed.
TimeoutResponse == Status(408, "timeout")

\* The request of task p is cancelled: its future is dropped where it is
\* pending, which drops whatever guard it holds; the writer, owned by the
\* cached handle, keeps its queue.
Cancel(p) ==
    LET t == req[p].user
    IN  /\ pc[p] \in SuspensionPoints
        /\ req[p].via = "http"
        /\ lock' = IF lock[t] = p THEN GuardDropped(lock, t) ELSE lock
        /\ Finish(p, TimeoutResponse)
        /\ UNCHANGED <<diskVars, indexes, pending, reader, req, loc, envVars, ghostVars>>

\* What the two clients of the specification below send.
CancelReqs ==
    {WithHeader(r, UuidStr("T1")) : r \in WritePayloads \cup {StatsReq}}

CancelRequest(p) ==
    /\ reqs < MaxCancelReqs
    /\ \E r \in CancelReqs : Arrive(p, r)

\* Two concurrent clients on one tenant, whose requests may time out.
NextCancel ==
    \/ \E p \in Tasks : CancelRequest(p)
    \/ \E p \in Tasks : CoreStep(p)
    \/ \E t \in Tenants : AutoReload(t)
    \/ \E p \in Tasks : Cancel(p)

SpecCancel == Init /\ [][NextCancel]_vars

\* The write of task p is cancelled in this step.
WriteCancelled(p) ==
    /\ InFlight(p) /\ req[p].op \in WriteOps
    /\ pc'[p] = "done" /\ resp'[p] = TimeoutResponse

\* The cancelled write does not keep the lock, and the step changes neither
\* the committed index nor the writer's queue; the write had queued nothing
\* before: when no engine call has failed, a writer that no write holds has
\* an empty queue after the step.
C27_NothingLeft ==
    \A p \in Tasks :
        WriteCancelled(p) =>
            LET t == req[p].user
            IN  /\ lock'[t] # p
                /\ lock[t] # p
                /\ committed' = committed /\ pending' = pending
                /\ faults = 0 /\ lock'[t] = NoTask => pending'[t] = <<>>

\* A task whose request was cancelled holds no writer lock.
C27_NoLockAfterCancel ==
    \A p \in Tasks, t \in Tenants :
        pc[p] = "done" /\ resp[p] = TimeoutResponse => lock[t] # p

\* C27: when a write request is cancelled at a suspension point, the
\* tenant's writer lock is not left held by it and the write has taken no
\* part of its effect: nothing of its delete+add+commit was committed and
\* none of its operations stays queued in the writer.
C27_CancelLeavesNothing == []C27_NoLockAfterCancel /\ [][C27_NothingLeft]_vars

\* An upsert was cancelled while it waited for the writer lock that the other
\* client's write held, and that write has since committed.
C27_Witness ==
    \E p, q \in Tasks :
        /\ p # q
        /\ pc[p] = "done" /\ resp[p] = TimeoutResponse
        /\ req[p].op = "index" /\ loc[p].doc # NoDoc
        /\ Succeeded(q) /\ req[q].op \in WriteOps /\ req[q].user = req[p].user
        /\ lock[req[p].user] = NoTask

\* ------------------------------------------------- the core's own validation
\* Task p has returned from a direct call of IndexManager::search.
CoreSearchDone(p) == pc[p] = "done" /\ req[p].via = "core" /\ req[p].op = "search"

\* C28 as stated: IndexManager::search called directly with a query that is
\* empty after trimming, or with a limit outside [1,100], returns an error
\* instead of executing the search.
C28_CoreValidates ==
    \A p \in Tasks :
        CoreSearchDone(p) /\ BadSearch(req[p]) => resp[p] = ErrorResponse(req[p])

\* The same arguments sent over HTTP are rejected by the handler.
C28_EdgeValidates ==
    \A p \in Tasks :
        pc[p] = "done" /\ Authenticated(p) /\ BadSearch(req[p]) =>
            resp[p] = IntoResponse("Validation")

\* A direct search with limit 101 has returned a hit.
C28_Clamped ==
    \E p \in Tasks :
        /\ CoreSearchDone(p) /\ req[p].limit = 101
        /\ resp[p].kind = "ok" /\ resp[p].total = 1

\* ------------------------------------------------------------ open or create
\* Task p runs IndexHandle::new in this step (the slow path found no cached
\* handle) and no engine call fails in it.
OpensOrCreates(p) ==
    /\ pc[p] = "slow" /\ pc'[p] \notin {"slow", "idle"}
    /\ ~indexes[req[p].user]
    /\ faults' = faults

\* The outcome open_or_create is to have on the path of task p's tenant: a
\* handle on the index that was there, or on a new, empty one.
OpenedOrCreated(p) ==
    LET t == req[p].user
        x == PathOf(t)
    IN  /\ indexes'[t] /\ pc'[p] # "done"
        /\ dir'[x] = "index"
        /\ reader'[t] = (IF dir[x] = "index" THEN committed[x] ELSE <<>>)
        /\ committed' = committed

\* C29 as stated: open_or_create opens the index when the path holds a valid
\* index, and in every other case (a missing path, or a path that exists
\* without a valid index, such as the empty directory of an earlier failed
\* creation) creates the directory if needed and initializes a new index.
C29_OpenOrCreate ==
    [][\A p \in Tasks : OpensOrCreates(p) => OpenedOrCreated(p)]_vars

\* The statement of C29 for the paths that are missing or hold a valid index.
C29_MissingOrValid ==
    [][\A p \in Tasks :
          OpensOrCreates(p) /\ dir[PathOf(req[p].user)] # "empty" =>
              OpenedOrCreated(p)]_vars

\* A request has failed on the empty directory an earlier failed creation
\* left.
C29_StuckOnEmpty ==
    \E p \in Tasks :
        /\ pc[p] = "done" /\ resp[p] = ErrorResponse(req[p])
        /\ dir[PathOf(req[p].user)] = "empty"
        /\ reqs >= 2

\* ------------------------------------------------------ tenants independent
\* The only thing that stops task q here is the bound on the UUIDs one
\* behaviour may mint.
OutOfUuids(q) ==
    pc[q] = "prepare" /\ req[q].input.id = NoneVal /\ nextUuid + 2 > MaxMint

\* Task p holds the writer lock of its tenant while task q serves a request
\* of another tenant.
BesideMutation(p, q) ==
    /\ p # q
    /\ Mutating(p) /\ lock[req[p].user] = p
    /\ InFlight(q) /\ req[q].user # req[p].user

\* C30: handles of distinct tenants share no lock: while the writer lock of
\* tenant A is held by a mutation in flight, an operation on a tenant B # A,
\* read or write, can take its next step at every position up to its return,
\* without the mutation of A moving.
C30_NoSharedLock ==
    \A p, q \in Tasks :
        BesideMutation(p, q) /\ ~OutOfUuids(q) => ENABLED CoreStep(q)

\* While a write of one tenant sits before its commit, holding its lock, a
\* write of the other tenant that began after it has acquired its own lock
\* and returned success.
C30_Witness ==
    \E p, q \in Tasks :
        /\ p # q
        /\ pc[p] = "commit" /\ lock[req[p].user] = p
        /\ Succeeded(q) /\ req[q].op = "index"
        /\ req[q].user # req[p].user
        /\ reqs = 2 /\ Live(req[q].user) # <<>>

\* ------------------------------------------------------------ reads are reads
\* A step of a task serving a read changes no tenant's committed documents,
\* no writer queue and no writer lock.
C31_ReadStepWritesNothing ==
    \A p \in Tasks :
        Moves(p) /\ req'[p].op \in ReadOps =>
            committed' = committed /\ pending' = pending /\ lock' = lock

\* Only writes hold a writer lock, and a read of a tenant whose writer lock
\* a write holds can take its next step.
C31_ReadNeedsNoLock ==
    /\ \A t \in Tenants : lock[t] # NoTask => req[lock[t]].op \in WriteOps
    /\ \A p, q \in Tasks :
          /\ Mutating(p) /\ lock[req[p].user] = p
          /\ InFlight(q) /\ req[q].op \in ReadOps /\ req[q].user = req[p].user
          => ENABLED CoreStep(q)

\* C31: search, browse_documents and get_user_stats, whether they succeed or
\* fail, never change the committed documents of any tenant and never take
\* the writer lock; a read on T proceeds while a write on T holds the lock.
C31_ReadsDoNotWrite == []C31_ReadNeedsNoLock /\ [][C31_ReadStepWritesNothing]_vars

\* A read of a tenant has returned while a write of the same tenant, in
\* flight since before the read began, holds the writer lock before its
\* commit.
C31_Witness ==
    \E p, q \in Tasks :
        /\ p # q /\ req[p].user = req[q].user
        /\ pc[p] = "commit" /\ lock[req[p].user] = p
        /\ ReadDone(q) /\ Target(req[p]) \in dirty[q]
        /\ reqs = 2

\* A read has failed in reload on a tenant whose index holds a document.
C31_FailedRead ==
    \E q \in Tasks :
        /\ pc[q] = "done" /\ req[q].op \in ReadOps
        /\ resp[q] = ErrorResponse(req[q])
        /\ Live(req[q].user) # <<>>

\* ------------------------------------------------------- registry append-only
\* C32: the registry map is append-only during the process lifetime: in
\* every step, a tenant that has an entry keeps it, mapped to the same
\* handle (the one made first); nothing removes or replaces an entry.
C32_AppendOnly ==
    [][\A t \in Tenants :
          indexes[t] => indexes'[t] /\ built'[t] = built[t]]_vars

\* Both tenants have an entry, and the tenant entered first has served a
\* further request that failed.
C32_Witness ==
    /\ \A t \in Tenants : indexes[t] /\ built[t] = 1
    /\ \E p \in Tasks :
          /\ pc[p] = "done" /\ resp[p] = ErrorResponse(req[p])
          /\ loc[p].handle = 1

\* ------------------------------------------------------------------ paging
\* Number of requests in one behaviour of the specification below.
MaxPageReqs == 5

\* What the client of the specification below sends: upserts that store up
\* to two documents, and direct browse calls for the first page, the second
\* page and the whole list.
PageReqs ==
    {WithHeader(IndexReq(i), UuidStr("T1")) : i \in {InputV1(NoneVal), InputV2(<<"d">>)}}
    \cup {AsCore(r, "T1") : r \in {BrowseReq(1, 0), BrowseReq(1, 1), BrowseReq(50, 0)}}

\* One client that sends its next request when the last was answered, and
\* keeps the last two answers.
PageRequest(p) ==
    /\ reqs < MaxPageReqs
    /\ \A q \in Tasks : ~InFlight(q)
    /\ \E r \in PageReqs : Arrive(p, r)

NextPage ==
    \/ \E p \in Tasks : PageRequest(p)
    \/ \E p \in Tasks : CoreStep(p)
    \/ \E t \in Tenants : AutoReload(t)

SpecPage == Init /\ [][NextPage]_vars

\* Task q returns from a browse in this step, task p has returned from a
\* browse of the same tenant before, and no write succeeded or was in flight
\* from the beginning of the one to the end of the other: both see the same
\* index state, which is the committed state of this step.
BrowsedSameState(p, q) ==
    /\ p # q
    /\ pc[q] = "exec" /\ pc'[q] = "done" /\ resp'[q].kind = "ok"
    /\ ReadDone(p)
    /\ req[p].op = "browse" /\ req[q].op = "browse" /\ req[p].user = req[q].user
    /\ base[p] = base[q] /\ base[q] = acked[req[q].user]
    /\ dirty[p] = {} /\ dirty[q] = {}

\* The ids of a list of projected documents, in order.
IdList(results) == [i \in 1..Len(results) |-> results[i].id]

\* C33: for a fixed index state the browse order is stable: two browse calls
\* with the same limit and offset and no write in between return the same
\* sequence, and consecutive windows (offset 0, limit, ...) return every live
\* document of the tenant exactly once: the pages are disjoint, hold only
\* live documents, and two pages that reach the end hold them all.
C33_StablePaging ==
    [][\A p, q \in Tasks :
          BrowsedSameState(p, q) =>
              LET live == committed[PathOf(req[q].user)]
                  first == resp[p].results
                  second == resp'[q].results
              IN  /\ req[p].limit = req[q].limit /\ req[p].offset = req[q].offset
                        => second = first
                  /\ req[p].offset = 0 /\ req[q].offset = req[p].limit
                     /\ req[q].limit = req[p].limit
                        => /\ \A i \in 1..Len(first), j \in 1..Len(second) :
                                 first[i].id # second[j].id
                           /\ SetOf(IdList(first \o second)) \subseteq IdsOf(live)
                           /\ Len(live) <= 2 * req[p].limit
                                 => /\ Len(first \o second) = Len(live)
                                    /\ SetOf(IdList(first \o second)) = IdsOf(live)]_vars

\* Two documents are live, and the first page and the second page of limit 1
\* have been returned, each with one document.
C33_Witness ==
    \E p, q \in Tasks :
        /\ p # q /\ ReadDone(p) /\ ReadDone(q)
        /\ req[p] = AsCore(BrowseReq(1, 0), "T1") /\ req[q] = AsCore(BrowseReq(1, 1), "T1")
        /\ base[p] = base[q] /\ base[q] = acked["T1"]
        /\ Len(Live("T1")) = 2
        /\ resp[p].total = 1 /\ resp[q].total = 1
        /\ resp[p].results[1].id # resp[q].results[1].id

\* ------------------------------------------------------- what a search matches
\* Requests one client sends before the next in SpecQuery.
MaxQueryReqs == 4

TagQuery == <<"t", "a", "g", "s", ":", "e">>

\* Upserts of two documents and searches by plain terms and by terms of a
\* named field, each with a window that leaves out no hit.
QueryReqs ==
    {WithHeader(IndexReq(i), UuidStr("T1")) : i \in {InputV1(NoneVal), InputV2(<<"d">>)}}
    \cup {WithHeader(SearchReq(q, 10, 0), UuidStr("T1")) :
            q \in {<<"e">>, <<"r">>, <<"x", SP, "e">>, TagQuery,
                   <<"i", "d", ":", "d">>,
                   <<"s", "o", "u", "r", "c", "e", ":", "d">>,
                   <<"x", ":", "e">>}}

QueryRequest(p) ==
    /\ reqs < MaxQueryReqs
    /\ \A q \in Tasks : ~InFlight(q)
    /\ \E r \in QueryReqs : Arrive(p, r)

NextQuery ==
    \/ \E p \in Tasks : QueryRequest(p)
    \/ \E p \in Tasks : CoreStep(p)
    \/ \E t \in Tenants : AutoReload(t)

SpecQuery == Init /\ [][NextQuery]_vars

\* The words of the query text as the tokenizer cuts them.
QueryWords(q) == {Tokens(q)[i] : i \in 1..Len(Tokens(q))}

\* Document d has one of the words in its title or its body.
InTitleOrBody(d, words) ==
    \/ \E i \in 1..Len(Tokens(d.title)) : Tokens(d.title)[i] \in words
    \/ \E i \in 1..Len(Tokens(d.body)) : Tokens(d.body)[i] \in words

\* This step ends a search of p with a hit list that its window did not cut.
SearchReturnsAll(p) ==
    /\ pc[p] = "exec" /\ pc'[p] = "done"
    /\ req[p].op = "search" /\ resp'[p].kind = "ok"
    /\ req[p].offset = 0 /\ resp'[p].total < req[p].limit

\* The documents the search of p ran on: those its searcher shows.
Searched(p) == {reader[req[p].user][i] : i \in 1..Len(reader[req[p].user])}

\* The query names no field: none of its words has a colon.
PlainQuery(q) == ~HasChar(q, ":")

\* C34 as stated: the hit list of a search is exactly the set of live
\* documents of the tenant that contain at least one term of the query in
\* their title or body; a document matching only through its id, tags or
\* source is not returned.
C34_TitleAndBodyOnly ==
    [][\A p \in Tasks :
          SearchReturnsAll(p) =>
              resp'[p].seen = {d \in Searched(p) : InTitleOrBody(d, QueryWords(req[p].query))}]_vars

\* C34, amended: for a query none of whose words names a field, the hit list
\* of a search is exactly the set of live documents of the tenant that
\* contain at least one term of the query in their title or body; a document
\* that has the term only in its id, tags or source is not returned.
C34_PlainTermsTitleAndBody ==
    [][\A p \in Tasks :
          SearchReturnsAll(p) /\ PlainQuery(req[p].query) =>
              resp'[p].seen = {d \in Searched(p) : InTitleOrBody(d, QueryWords(req[p].query))}]_vars

\* A search for a word that one live document has in its body and its tags
\* and the other in neither has returned the first document only; and
\* (C34_TagOnlyLeftOut) a search for a word a live document has only in its
\* tags has returned nothing.
C34_Witness ==
    \E p \in Tasks :
        /\ Succeeded(p) /\ req[p].op = "search" /\ req[p].query = <<"r">>
        /\ Len(reader["T1"]) = 2
        /\ Cardinality(resp[p].seen) = 1
        /\ \A d \in resp[p].seen : d.title = V1Title /\ <<"r">> \in {d.tags[i] : i \in 1..Len(d.tags)}

C34_TagOnlyLeftOut ==
    \E p \in Tasks :
        /\ Succeeded(p) /\ req[p].op = "search" /\ req[p].query = <<"e">>
        /\ \E i \in 1..Len(reader["T1"]) : <<"e">> \in {reader["T1"][i].tags[j] : j \in 1..Len(reader["T1"][i].tags)}
        /\ resp[p].seen = {}

\* A search for tags:e has returned a document that has e in its tags only.
C34_FoundByTag ==
    \E p \in Tasks :
        /\ Succeeded(p) /\ req[p].op = "search" /\ req[p].query = TagQuery
        /\ \E d \in resp[p].seen : ~InTitleOrBody(d, {<<"e">>})

\* ------------------------------------------------------ frame of a write
\* This step is the commit of the write of p.
WriteCommits(p) == pc[p] = "commit" /\ pc'[p] = "done" /\ resp'[p].kind = "ok"

\* The documents of `docs`, as a set.
DocSet(docs) == {docs[i] : i \in 1..Len(docs)}

\* The ids the write of p is about: the id it deletes by and, for an upsert,
\* the id of the document it adds.
OwnIds(p) == {TermOf(p)} \cup (IF req[p].op = "index" THEN {loc[p].doc.id} ELSE {})

\* C35 as stated: a write touches only its own id: an upsert or delete of
\* id D leaves every live document of the tenant whose id is not D present
\* and with unchanged fields.
C35_OnlyItsOwnId ==
    [][\A p \in Tasks :
          WriteCommits(p) =>
              {d \in DocSet(committed[PathOf(req[p].user)]) : d.id \notin OwnIds(p)}
                  \subseteq DocSet(committed'[PathOf(req[p].user)])]_vars

\* A write of one id has committed while a document of another id was live.
C35_OtherIdLive ==
    \E p \in Tasks :
        /\ Succeeded(p) /\ req[p].op \in WriteOps
        /\ \E d \in DocSet(Live(req[p].user)) : d.id \notin OwnIds(p)

\* ------------------------------------------------- failed handle creation
\* In this step IndexHandle::new fails for the request of task p.
CreationFails(p) ==
    pc[p] = "slow" /\ ~indexes[req[p].user] /\ pc'[p] = "done"

\* The request of q ended with the error of a failed handle creation and
\* its tenant has no handle yet.
FailedToCreate(q) ==
    /\ pc[q] = "done" /\ resp[q] = ErrorResponse(req[q])
    /\ ~indexes[req[q].user]

\* In this step p runs IndexHandle::new for a tenant whose earlier creation,
\* for the request of q, failed; no engine call fails this time.
RetriesCreation(p, q) ==
    /\ p # q /\ FailedToCreate(q) /\ req[p].user = req[q].user
    /\ OpensOrCreates(p)

\* C36 as stated: when handle creation fails in get_or_create_index, the
\* error is returned to the caller, nothing is inserted into the registry
\* and the exclusive guard is released (no task at the registry is kept
\* waiting); a later call for the same tenant attempts creation again and
\* succeeds once the fault is gone.
C36_FailedCreationRetried ==
    /\ [](\A q \in Tasks : pc[q] \in {"goc", "slow"} => ENABLED CoreStep(q))
    /\ [][\A p \in Tasks :
            CreationFails(p) =>
                resp'[p] = ErrorResponse(req[p]) /\ indexes' = indexes /\ built' = built]_vars
    /\ [][\A p, q \in Tasks :
            RetriesCreation(p, q) =>
                indexes'[req[p].user] /\ pc'[p] = AfterGoc(req[p].op)]_vars

\* The statement of C36 for failures that leave no empty directory behind.
C36_RetriedUnlessEmpty ==
    /\ [](\A q \in Tasks : pc[q] \in {"goc", "slow"} => ENABLED CoreStep(q))
    /\ [][\A p \in Tasks :
            CreationFails(p) =>
                resp'[p] = ErrorResponse(req[p]) /\ indexes' = indexes /\ built' = built]_vars
    /\ [][\A p, q \in Tasks :
            RetriesCreation(p, q) /\ dir[PathOf(req[p].user)] # "empty" =>
                indexes'[req[p].user] /\ pc'[p] = AfterGoc(req[p].op)]_vars

\* After a failed creation, a later request of the same tenant has got its
\* handle.
C36_RetrySucceeded ==
    \E p, q \in Tasks :
        /\ p # q /\ pc[q] = "done" /\ resp[q] = ErrorResponse(req[q])
        /\ req[p].user = req[q].user /\ req[q].op \in WriteOps
        /\ faults = MaxFaults /\ built[req[p].user] = 1 /\ pending[req[p].user] = <<>>
        /\ committed[PathOf(req[p].user)] = <<>>
        /\ Succeeded(p)

\* ------------------------------------------------------------- no deadlock
\* Requests the clients of SpecLive send in one behaviour.
MaxLiveReqs == 2

\* Every operation, on one tenant and on another.
LiveReqs ==
    {WithHeader(r, UuidStr("T1")) :
        r \in {IndexReq(InputV1(<<"d">>)), DeleteReq(<<"d">>), SearchReq(<<"r">>, 10, 0), StatsReq}}
    \cup {AsCore(BrowseReq(50, 0), "T1"), WithHeader(IndexReq(InputV1(<<"d">>)), UuidStr("T2"))}

\* A request of a concurrent client.
LiveRequest(p) ==
    /\ reqs < MaxLiveReqs
    /\ \E r \in LiveReqs : Arrive(p, r)

NextLive ==
    \/ \E p \in Tasks : LiveRequest(p)
    \/ \E p \in Tasks : CoreStep(p)
    \/ \E t \in Tenants : AutoReload(t)

\* The runtime polls every task that can run, and the writer mutex hands the
\* lock to its waiters in turn.
Fairness ==
    \A p \in Tasks : WF_vars(CoreStep(p)) /\ SF_vars(WriterLock(p))

SpecLive == Init /\ [][NextLive]_vars /\ Fairness

\* Task p waits for a writer lock that another task holds.
WaitsForWriter(p) == pc[p] = "lock" /\ lock[req[p].user] # NoTask

\* C37: no deadlock.  A task at the registry (looking a handle up, or under
\* the exclusive guard constructing one) is never kept waiting, whatever the
\* other tasks hold or wait for; a task in flight can always take its next
\* step unless it waits for a writer lock, and the holder of a writer lock
\* is in flight inside its write; so under fair scheduling every upsert,
\* delete, search, browse and stats request eventually completes, on the
\* same or on different tenants.
C37_NoDeadlock ==
    /\ [](\A p \in Tasks : InFlight(p) /\ ~WaitsForWriter(p) => ENABLED CoreStep(p))
    /\ [](\A t \in Tenants : lock[t] # NoTask => Mutating(lock[t]) /\ req[lock[t]].user = t)
    /\ \A p \in Tasks : InFlight(p) ~> ~InFlight(p)

\* A write waits for the writer lock of its tenant while another write holds
\* it.
C37_Witness ==
    \E p, q \in Tasks :
        /\ WaitsForWriter(p) /\ lock[req[p].user] = q
        /\ reqs = MaxLiveReqs

\* ------------------------------------------------------------- fetch size
\* Task p has finished a search, or a call of browse_documents, with a valid
\* limit that no engine fault cut short.
WindowRan(p) ==
    \/ SearchRan(p)
    \/ /\ pc[p] = "done" /\ req[p].op = "browse" /\ req[p].via = "core"
       /\ req[p].limit >= 1 /\ req[p].limit <= 1000
       /\ resp[p] # ErrorResponse(req[p])

\* The number of hits the request of p has on the documents it ran on.
HitCount(p) ==
    IF req[p].op = "search"
    THEN Len(RankedHits(req[p], reader[req[p].user]))
    ELSE Len(reader[req[p].user])

\* C38 as stated: for every offset >= 0 representable in the request and
\* every valid limit, search and browse compute the fetch size limit +
\* offset without overflow and return successfully, with an empty window
\* (total = 0) when offset is at least the number of hits.
C38_FetchSizeFits ==
    \A p \in Tasks :
        WindowRan(p) =>
            /\ resp[p].kind = "ok"
            /\ req[p].offset >= HitCount(p) => EmptyResult(resp[p])

\* The statement of C38 for the requests whose limit + offset fits in usize.
C38_FitsWithoutOverflow ==
    \A p \in Tasks :
        WindowRan(p) /\ req[p].limit + req[p].offset <= UsizeMax =>
            /\ resp[p].kind = "ok"
            /\ req[p].offset >= HitCount(p) => EmptyResult(resp[p])

\* A browse call with the largest offset has panicked.
C38_BrowsePanics ==
    \E p \in Tasks :
        WindowRan(p) /\ req[p].op = "browse" /\ req[p].offset = UsizeMax /\ resp[p].kind = "panic"

\* ------------------------------------------------- ids the endpoints accept
\* Requests the upserting and deleting client of SpecIds sends.
MaxIdReqs == 4

\* Upserts with a supplied id (a plain one, the empty string, a blank) and
\* without one, deletes by the same ids, and the count of what is stored.
IdReqs ==
    {WithHeader(IndexReq(InputV1(id)), UuidStr("T1")) : id \in {<<"d">>, <<>>, <<SP>>, NoneVal}}
    \cup {WithHeader(DeleteReq(id), UuidStr("T1")) : id \in {<<"d">>, <<>>, <<SP>>}}
    \cup {WithHeader(StatsReq, UuidStr("T1"))}

IdRequest(p) ==
    /\ reqs < MaxIdReqs
    /\ \A q \in Tasks : ~InFlight(q)
    /\ \E r \in IdReqs : Arrive(p, r)

NextIds ==
    \/ \E p \in Tasks : IdRequest(p)
    \/ \E p \in Tasks : CoreStep(p)
    \/ \E t \in Tenants : AutoReload(t)

SpecIds == Init /\ [][NextIds]_vars

\* The delete endpoint's validation passes a delete by this id.
DeleteAccepts(id) == ValidationError(DeleteReq(id)) = NoResp

\* C39 as stated: every document that a successful upsert request stores
\* can be removed through the delete endpoint: any id that the upsert
\* endpoint accepts and stores (a supplied id that is empty or
\* whitespace-only included) is also accepted by the delete endpoint's
\* validation.
C39_StoredIdsDeletable ==
    \A t \in Tenants : \A d \in DocSet(Live(t)) : DeleteAccepts(d.id)

\* The statement of C39 for the upserts whose supplied id is not blank.
C39_NonBlankDeletable ==
    \A t \in Tenants :
        \A d \in DocSet(Live(t)) : d.input.id = NoneVal \/ ~TrimIsEmpty(d.input.id) => DeleteAccepts(d.id)

\* An upsert with the empty string as id was answered 200 and its document
\* is live.
C39_EmptyIdStored ==
    \E p \in Tasks :
        /\ Succeeded(p) /\ req[p].op = "index" /\ req[p].input.id = <<>>
        /\ \E d \in DocSet(Live("T1")) : d.id = <<>>

====
